---- MODULE Spec2Model ----
(***************************************************************************)
(* A model of the group chat server (server/routes.ts, server/storage.ts): *)
(* the tables, the presence map, the request handlers with one step per    *)
(* awaited database call, and the WebSocket handlers.                      *)
(***************************************************************************)
EXTENDS Integers, Sequences, FiniteSets, TLC

VARIABLES
    members,          \* members table: member id -> row (absent ids are not in the domain)
    messages,         \* messages table: sequence of rows, a row's id is its index
    reactions,        \* reactions table: set of rows
    chatSettings,     \* the "global" chat_settings row
    blockedKeywords,  \* blocked_keywords table: set of stored keywords
    projectUpdates,   \* project_updates table: sequence of audit rows
    notifications,    \* notifications table: sequence of rows
    onlineMembers,    \* the presence map: connection -> member id
    clients,          \* wss.clients: connection -> "none" | "open" | "errored" | "closed"
    out,              \* the events handed to broadcast() by the latest step, with their receivers
    reqs,             \* in-flight HTTP requests: slot -> handler position and locals
    now,              \* the clock, in hours
    otpStore,         \* the otpStore map: phone -> the OTP issued last and its time of issue
    browser           \* one member's browser tab: the WebSocketProvider's refs and state

dbVars == <<members, messages, reactions, chatSettings, blockedKeywords,
            projectUpdates, notifications>>
wsVars == <<onlineMembers, clients>>
sideVars == <<otpStore, browser>>
vars == <<members, messages, reactions, chatSettings, blockedKeywords,
          projectUpdates, notifications, onlineMembers, clients, out, reqs, now,
          otpStore, browser>>

(***************************************************************************)
(* Nullable values: Null is SQL NULL / JS null or undefined, Some(x) a     *)
(* present value.                                                          *)
(***************************************************************************)
Null == <<>>
Some(x) == <<x>>
Val(o) == o[1]

(***************************************************************************)
(* Text.  A string is a sequence of one-character strings.                 *)
(***************************************************************************)
UpperCase == <<"A", "B", "C", "D", "E", "F", "G", "H", "I", "J", "K", "L", "M",
               "N", "O", "P", "Q", "R", "S", "T", "U", "V", "W", "X", "Y", "Z">>
LowerCase == <<"a", "b", "c", "d", "e", "f", "g", "h", "i", "j", "k", "l", "m",
               "n", "o", "p", "q", "r", "s", "t", "u", "v", "w", "x", "y", "z">>
DigitChars == {"0", "1", "2", "3", "4", "5", "6", "7", "8", "9"}

IsDigit(c) == c \in DigitChars                                       \* \d
IsSpace(c) == c = " "                                                \* \s
IsWordChar(c) ==                                                     \* \w
    \/ IsDigit(c) \/ c = "_"
    \/ \E i \in 1..26 : c = UpperCase[i] \/ c = LowerCase[i]

toLowerCaseChar(c) ==
    IF \E i \in 1..26 : c = UpperCase[i]
      THEN LowerCase[CHOOSE i \in 1..26 : c = UpperCase[i]]
      ELSE c
\* String.prototype.toLowerCase
toLowerCase(str) == [i \in 1..Len(str) |-> toLowerCaseChar(str[i])]

\* String.prototype.includes
includes(str, k) ==
    \E i \in 0..(Len(str) - Len(k)) : SubSeq(str, i + 1, i + Len(k)) = k

RECURSIVE trimStart(_), trimEnd(_)
trimStart(str) == IF str # <<>> /\ IsSpace(Head(str)) THEN trimStart(Tail(str)) ELSE str
trimEnd(str) ==
    IF str # <<>> /\ IsSpace(str[Len(str)]) THEN trimEnd(SubSeq(str, 1, Len(str) - 1)) ELSE str
\* String.prototype.trim
trim(str) == trimEnd(trimStart(str))

----------------------------------------------------------------------------
(* Bounds of the model.                                                    *)
MaxConns == 3          \* sockets ever opened
MaxInFlight == 2       \* HTTP requests in flight at once
MaxReactionRows == 3   \* rows the reactions table may grow to
MaxBulk == 2           \* message ids in one bulk-delete request
MaxProjectUpdates == 2 \* audit rows the project_updates table may grow to
MaxMessages == 3        \* rows the messages table may grow to (two are seeded)
MaxKeywords == 1        \* rows the blocked_keywords table may grow to
MaxTime == 1            \* hours the clock may advance

ConnIds == 1..MaxConns
Slots == 1..MaxInFlight

----------------------------------------------------------------------------
(* Seed data: the primary admin, a sub-admin and two members.              *)
PRIMARY_ADMIN_PHONE == "7030809030"

Member(name, phone, role) ==
    [name |-> name, phone |-> phone, role |-> role, isActive |-> TRUE,
     restrictedUntil |-> Null, projectsCompleted |-> 0, totalProjectValue |-> 0,
     firstLoginAt |-> Null]

SeedMembers ==
    [id \in {"a1", "s1", "u1", "u2"} |->
        CASE id = "a1" -> Member(<<"A", "d", "m", "i", "n">>, PRIMARY_ADMIN_PHONE, "admin")
          [] id = "s1" -> Member(<<"S", "u", "b">>, "9876543210", "sub-admin")
          [] id = "u1" -> Member(<<"R", "a", "v", "i">>, "9876543211", "member")
          [] id = "u2" -> Member(<<"P", "r", "i", "y", "a", " ", "P", "a", "t", "e", "l">>,
                                  "9876543212", "member")]

\* createMessage: isPinned and isDeleted take their column defaults.
Message(senderId, content, type, fileUrl, replyToId, mentions, at) ==
    [senderId |-> senderId, content |-> content, type |-> type, fileUrl |-> fileUrl,
     isPinned |-> FALSE, isDeleted |-> FALSE, replyToId |-> replyToId,
     mentions |-> mentions, createdAt |-> at]

SeedMessages ==
    << Message("a1", Some(<<"w", "e", "l", "c", "o", "m", "e">>), "text", Null, Null, Null, 0),
       Message("u1", Some(<<"t", "h", "a", "n", "k", "s">>), "text", Null, Null, Null, 0) >>

isAdminRole(role) == role = "admin" \/ role = "sub-admin"

\* A request slot holding no request, and one whose request has been answered.
Idle == [op |-> "none", pc |-> "idle"]
Answered(op, status, message) == [op |-> op, pc |-> "done", status |-> status, message |-> message]
Ok(op) == Answered(op, 200, "success")
Free(s) == reqs[s].pc \in {"idle", "done"}
InFlight(op) == {s \in Slots : reqs[s].op = op /\ reqs[s].pc # "done"}
\* Slots are interchangeable: a new request takes the first free one.
Accepts(s) == Free(s) /\ \A t \in Slots : t < s => ~Free(t)

----------------------------------------------------------------------------
(* Presence tracking and broadcast: routes.ts 113-125, 752-772.            *)

\* The member ids a client may put in a register message ("" is falsy).
RegisterIds == {"u1", "u2", ""}

\* What arrives on a socket: unparsable text, or a JSON object.
RawMessages ==
    {[json |-> FALSE, type |-> "", memberId |-> ""]}
    \cup [json : {TRUE}, type : {"register", "typing"}, memberId : RegisterIds]

\* A faulty variant: the loop stops after the first open client.
OpenClients_first_only(cl) ==
    {c \in DOMAIN cl : cl[c] = "open" /\ \A d \in DOMAIN cl : cl[d] = "open" => c <= d}
\* wss.clients.forEach with its readyState test: the clients served by one broadcast.
OpenClients(cl) == {c \in DOMAIN cl : cl[c] = "open"}

\* broadcast(wss, data): data goes to every client whose readyState is OPEN.
broadcast(wss, data) == out' = <<[data |-> data, to |-> OpenClients(wss)]>>
NoBroadcast == out' = <<>>

MapDelete(map, c) == [k \in DOMAIN map \ {c} |-> map[k]]
MapSet(map, c, v) == [k \in DOMAIN map \cup {c} |-> IF k = c THEN v ELSE map[k]]

\* A faulty variant: counts connections instead of members.
getOnlineCount_connections(map) == Cardinality(DOMAIN map)
getOnlineCount(map) == Cardinality({map[c] : c \in DOMAIN map})

\* wss.on("connection"): a new socket, its handlers attached.
Connection(c) ==
    /\ clients[c] = "none"
    /\ clients' = [clients EXCEPT ![c] = "open"]
    /\ NoBroadcast
    /\ UNCHANGED <<dbVars, onlineMembers, sideVars, reqs, now>>

\* ws.on("message")
OnMessage(c, raw) ==
    /\ clients[c] = "open"
    /\ UNCHANGED clients
    /\ IF raw.json /\ raw.type = "register" /\ raw.memberId # ""
         THEN /\ onlineMembers' = MapSet(onlineMembers, c, raw.memberId)
              /\ broadcast(clients', [type |-> "online_count", count |-> getOnlineCount(onlineMembers')])
         ELSE /\ UNCHANGED onlineMembers
              /\ NoBroadcast
    /\ UNCHANGED <<dbVars, sideVars, reqs, now>>

\* ws.on("close"): emitted once per socket, also after an error.
OnClose(c) ==
    /\ clients[c] \in {"open", "errored"}
    /\ clients' = [clients EXCEPT ![c] = "closed"]
    /\ onlineMembers' = MapDelete(onlineMembers, c)
    /\ broadcast(clients', [type |-> "online_count", count |-> getOnlineCount(onlineMembers')])
    /\ UNCHANGED <<dbVars, sideVars, reqs, now>>

\* ws.on("error"): the socket is no longer OPEN; its close event follows.
OnError(c) ==
    /\ clients[c] = "open"
    /\ clients' = [clients EXCEPT ![c] = "errored"]
    /\ onlineMembers' = MapDelete(onlineMembers, c)
    /\ NoBroadcast
    /\ UNCHANGED <<dbVars, sideVars, reqs, now>>

----------------------------------------------------------------------------
(* Reactions: routes.ts 637-650, storage.ts 130-141.  The reactions table  *)
(* has no unique constraint on (message_id, member_id) (replit.md 156-161).*)

Emojis == {"like", "heart"}
ReactMembers == {"u1", "u2"}
ReactMessageIds == {1}

ReactionRows(messageId, memberId) ==
    {r \in reactions : r.messageId = messageId /\ r.memberId = memberId}

\* gen_random_uuid(): an id no row and no handler local holds.
HeldReactionIds ==
    {r.id : r \in reactions}
    \cup {Val(reqs[s].existing).id :
            s \in {t \in InFlight("toggleReaction") : reqs[t].existing # Null}}
FreshReactionId == CHOOSE n \in 1..(Cardinality(HeldReactionIds) + 1) : n \notin HeldReactionIds

\* POST /api/reactions, up to toggleReaction's select.  Without ORDER BY the
\* row that comes first, existing[0], is any of the matching rows.
ToggleSelect(s, memberId, messageId, emoji) ==
    /\ Accepts(s)
    /\ Cardinality(reactions) + Cardinality(InFlight("toggleReaction")) < MaxReactionRows
    /\ \E existing \in (IF ReactionRows(messageId, memberId) = {} THEN {Null}
                        ELSE {Some(r) : r \in ReactionRows(messageId, memberId)}) :
          reqs' = [reqs EXCEPT ![s] =
                     [op |-> "toggleReaction", pc |-> IF existing = Null THEN "insert" ELSE "delete",
                      memberId |-> memberId, messageId |-> messageId, emoji |-> emoji,
                      existing |-> existing]]
    /\ NoBroadcast
    /\ UNCHANGED <<dbVars, wsVars, sideVars, now>>

\* toggleReaction: delete existing[0]; with the same emoji the toggle ends here
\* and the route broadcasts and answers.
ToggleDelete_always_reinserts(s) ==
    /\ reqs[s].op = "toggleReaction" /\ reqs[s].pc = "delete"
    /\ reactions' = {r \in reactions : r.id # Val(reqs[s].existing).id}
    /\ reqs' = [reqs EXCEPT ![s].pc = "insert"]
    /\ NoBroadcast
    /\ UNCHANGED <<members, messages, chatSettings, blockedKeywords, projectUpdates,
                   notifications, wsVars, sideVars, now>>
ToggleDelete(s) ==
    /\ reqs[s].op = "toggleReaction" /\ reqs[s].pc = "delete"
    /\ reactions' = {r \in reactions : r.id # Val(reqs[s].existing).id}
    /\ IF Val(reqs[s].existing).emoji = reqs[s].emoji
         THEN /\ reqs' = [reqs EXCEPT ![s] = Ok("toggleReaction")]
              /\ broadcast(clients, [type |-> "new_reaction", messageId |-> reqs[s].messageId])
         ELSE /\ reqs' = [reqs EXCEPT ![s].pc = "insert"]
              /\ NoBroadcast
    /\ UNCHANGED <<members, messages, chatSettings, blockedKeywords, projectUpdates,
                   notifications, wsVars, sideVars, now>>

\* toggleReaction: insert the new row; the route broadcasts and answers.
ToggleInsert(s) ==
    /\ reqs[s].op = "toggleReaction" /\ reqs[s].pc = "insert"
    /\ reactions' = reactions \cup
          {[id |-> FreshReactionId, messageId |-> reqs[s].messageId,
            memberId |-> reqs[s].memberId, emoji |-> reqs[s].emoji]}
    /\ reqs' = [reqs EXCEPT ![s] = Ok("toggleReaction")]
    /\ broadcast(clients, [type |-> "new_reaction", messageId |-> reqs[s].messageId])
    /\ UNCHANGED <<members, messages, chatSettings, blockedKeywords, projectUpdates,
                   notifications, wsVars, sideVars, now>>

----------------------------------------------------------------------------
(* Pin and delete: routes.ts 591-629, storage.ts 101-120.                  *)



\* requireAdmin (routes.ts 157-162).
requireAdmin(memberId) ==
    memberId \in DOMAIN members /\ isAdminRole(members[memberId].role)

\* The ids a request may name: the stored messages and one id of no message.
UnknownId == 0
TargetIds == DOMAIN messages \cup {UnknownId}
getMessage(id) == IF id \in DOMAIN messages THEN Some(messages[id]) ELSE Null

\* A request the requireAdmin middleware answers with 403.
RequireAdminRejects(s, memberId) ==
    /\ Accepts(s)
    /\ ~requireAdmin(memberId)
    /\ reqs' = [reqs EXCEPT ![s] = Answered("requireAdmin", 403, "Admin only")]
    /\ NoBroadcast
    /\ UNCHANGED <<dbVars, wsVars, sideVars, now>>

\* POST /api/messages/:id/pin, up to pinMessage's getMessage.
PinRead(s, memberId, id) ==
    /\ Accepts(s)
    /\ requireAdmin(memberId)
    /\ IF getMessage(id) = Null
         THEN /\ reqs' = [reqs EXCEPT ![s] = Ok("pin")]
              /\ broadcast(clients, [type |-> "message_pinned", messageId |-> id])
         ELSE /\ reqs' = [reqs EXCEPT ![s] =
                            [op |-> "pin", pc |-> "update", id |-> id,
                             msg |-> Val(getMessage(id))]]
              /\ NoBroadcast
    /\ UNCHANGED <<dbVars, wsVars, sideVars, now>>

\* pinMessage's update, then the broadcast and the answer.
PinUpdate(s) ==
    /\ reqs[s].op = "pin" /\ reqs[s].pc = "update"
    /\ messages' = [messages EXCEPT ![reqs[s].id].isPinned = ~reqs[s].msg.isPinned]
    /\ reqs' = [reqs EXCEPT ![s] = Ok("pin")]
    /\ broadcast(clients, [type |-> "message_pinned", messageId |-> reqs[s].id])
    /\ UNCHANGED <<members, reactions, chatSettings, blockedKeywords, projectUpdates,
                   notifications, wsVars, sideVars, now>>

\* A sub-admin may not delete a message whose sender has the primary admin's phone.
SubAdminBlocked_off(memberId, id) == FALSE
SubAdminBlocked(memberId, id) ==
    /\ getMessage(id) # Null
    /\ memberId \in DOMAIN members /\ members[memberId].role = "sub-admin"
    /\ Val(getMessage(id)).senderId \in DOMAIN members
    /\ members[Val(getMessage(id)).senderId].phone = PRIMARY_ADMIN_PHONE

\* deleteMessage: one UPDATE setting both columns; no row, no change.
deleteMessage(msgs, id) ==
    IF id \in DOMAIN msgs
      THEN [msgs EXCEPT ![id].isDeleted = TRUE, ![id].isPinned = FALSE]
      ELSE msgs

\* DELETE /api/messages/:id, up to the reads and the sub-admin check.
DeleteCheck(s, memberId, id) ==
    /\ Accepts(s)
    /\ requireAdmin(memberId)
    /\ reqs' = [reqs EXCEPT ![s] =
          IF SubAdminBlocked(memberId, id)
            THEN Answered("delete", 403, "Sub-admins cannot delete primary admin messages")
            ELSE [op |-> "delete", pc |-> "update", id |-> id]]
    /\ NoBroadcast
    /\ UNCHANGED <<dbVars, wsVars, sideVars, now>>

\* deleteMessage, then the broadcast and the answer.
DeleteUpdate(s) ==
    /\ reqs[s].op = "delete" /\ reqs[s].pc = "update"
    /\ messages' = deleteMessage(messages, reqs[s].id)
    /\ reqs' = [reqs EXCEPT ![s] = Ok("delete")]
    /\ broadcast(clients, [type |-> "message_deleted", messageId |-> reqs[s].id])
    /\ UNCHANGED <<members, reactions, chatSettings, blockedKeywords, projectUpdates,
                   notifications, wsVars, sideVars, now>>

\* The messageIds arrays of a bulk-delete request: 1..MaxBulk ids.
BulkLists(ids) == UNION {[1..n -> ids] : n \in 1..MaxBulk}

\* POST /api/messages/bulk-delete: the request is accepted, the loop starts.
BulkStart(s, memberId, messageIds) ==
    /\ Accepts(s)
    /\ requireAdmin(memberId)
    /\ reqs' = [reqs EXCEPT ![s] =
          [op |-> "bulk-delete", pc |-> "check", memberId |-> memberId,
           messageIds |-> messageIds, i |-> 1, deleted |-> 0, skipped |-> 0]]
    /\ NoBroadcast
    /\ UNCHANGED <<dbVars, wsVars, sideVars, now>>

\* The answer once the loop has run through the array.
BulkAdvance(r, deleted, skipped) ==
    IF r.i = Len(r.messageIds)
      THEN [op |-> "bulk-delete", pc |-> "broadcast", deleted |-> deleted, skipped |-> skipped]
      ELSE [r EXCEPT !.pc = "check", !.i = r.i + 1, !.deleted = deleted, !.skipped = skipped]

\* One iteration's reads: getMessage and, for a sub-admin, the sender.
BulkCheck(s) ==
    /\ reqs[s].op = "bulk-delete" /\ reqs[s].pc = "check"
    /\ LET r == reqs[s]
           id == r.messageIds[r.i]
       IN reqs' = [reqs EXCEPT ![s] =
             IF SubAdminBlocked(r.memberId, id) THEN BulkAdvance(r, r.deleted, r.skipped + 1)
             ELSE IF getMessage(id) = Null THEN BulkAdvance(r, r.deleted, r.skipped)
             ELSE [r EXCEPT !.pc = "update"]]
    /\ NoBroadcast
    /\ UNCHANGED <<dbVars, wsVars, sideVars, now>>

\* One iteration's deleteMessage.
BulkUpdate(s) ==
    /\ reqs[s].op = "bulk-delete" /\ reqs[s].pc = "update"
    /\ messages' = deleteMessage(messages, reqs[s].messageIds[reqs[s].i])
    /\ reqs' = [reqs EXCEPT ![s] = BulkAdvance(reqs[s], reqs[s].deleted + 1, reqs[s].skipped)]
    /\ NoBroadcast
    /\ UNCHANGED <<members, reactions, chatSettings, blockedKeywords, projectUpdates,
                   notifications, wsVars, sideVars, now>>

\* After the loop: the broadcast and the answer with both counts.
BulkBroadcast(s) ==
    /\ reqs[s].op = "bulk-delete" /\ reqs[s].pc = "broadcast"
    /\ reqs' = [reqs EXCEPT ![s] =
          [op |-> "bulk-delete", pc |-> "done", status |-> 200, message |-> "success",
           deleted |-> reqs[s].deleted, skipped |-> reqs[s].skipped]]
    /\ broadcast(clients, [type |-> "message_deleted"])
    /\ UNCHANGED <<dbVars, wsVars, sideVars, now>>

----------------------------------------------------------------------------
(* Project totals: routes.ts 411-447, storage.ts 69-72, 194-197.           *)
(* Amounts are in hundredths of a rupee, the unit of numeric(12,2); a      *)
(* request's valueAdded is in thousandths, so that it may carry a third    *)
(* decimal, which the column rounds away.                                  *)

ProjMembers == {"u1", "u2"}
ProjectsAddedInputs == {0 - 1, 0, 2}
ValueAddedInputs == {0, 4, 1000}

\* updateProjectSchema.parse and the two checks that follow it.
ValidProjectUpdate(projectsAdded, valueAdded) ==
    /\ projectsAdded >= 0 /\ valueAdded >= 0
    /\ ~(projectsAdded = 0 /\ valueAdded = 0)

\* parseFloat(member.totalProjectValue) + valueAdded, as numeric(12,2) stores it:
\* rounded to two decimals, halves away from zero.
newTotalValue(total, valueAdded) == (total * 10 + valueAdded + 5) \div 10

\* A request the validation answers with 400.
UpdateProjectsInvalid(s, memberId, projectsAdded, valueAdded) ==
    /\ Accepts(s)
    /\ ~ValidProjectUpdate(projectsAdded, valueAdded)
    /\ reqs' = [reqs EXCEPT ![s] = Answered("update-projects", 400, "invalid values")]
    /\ NoBroadcast
    /\ UNCHANGED <<dbVars, wsVars, sideVars, now>>

\* POST /api/members/update-projects, up to getMember.
UpdateProjectsRead(s, memberId, projectsAdded, valueAdded) ==
    /\ Accepts(s)
    /\ ValidProjectUpdate(projectsAdded, valueAdded)
    /\ Len(projectUpdates) + Cardinality(InFlight("update-projects")) < MaxProjectUpdates
    /\ reqs' = [reqs EXCEPT ![s] =
          IF memberId \notin DOMAIN members
            THEN Answered("update-projects", 404, "Member not found")
            ELSE [op |-> "update-projects", pc |-> "audit", memberId |-> memberId,
                  projectsAdded |-> projectsAdded, valueAdded |-> valueAdded,
                  member |-> members[memberId]]]
    /\ NoBroadcast
    /\ UNCHANGED <<dbVars, wsVars, sideVars, now>>

\* createProjectUpdate: the audit row.
UpdateProjectsAudit(s) ==
    /\ reqs[s].op = "update-projects" /\ reqs[s].pc = "audit"
    /\ projectUpdates' = Append(projectUpdates,
          [memberId |-> reqs[s].memberId, projectsAdded |-> reqs[s].projectsAdded,
           valueAdded |-> reqs[s].valueAdded])
    /\ reqs' = [reqs EXCEPT ![s].pc = "update"]
    /\ NoBroadcast
    /\ UNCHANGED <<members, messages, reactions, chatSettings, blockedKeywords,
                   notifications, wsVars, sideVars, now>>

\* updateMember with the totals computed from the member read earlier.
UpdateProjectsWrite(s) ==
    /\ reqs[s].op = "update-projects" /\ reqs[s].pc = "update"
    /\ LET r == reqs[s]
           newProjectsCompleted == r.member.projectsCompleted + r.projectsAdded
           newTotal == newTotalValue(r.member.totalProjectValue, r.valueAdded)
       IN IF r.memberId \in DOMAIN members
            THEN /\ members' = [members EXCEPT ![r.memberId].projectsCompleted = newProjectsCompleted,
                                               ![r.memberId].totalProjectValue = newTotal]
                 /\ broadcast(clients, [type |-> "member_updated", member |-> Some(members'[r.memberId])])
            ELSE /\ UNCHANGED members
                 /\ broadcast(clients, [type |-> "member_updated", member |-> Null])
    /\ reqs' = [reqs EXCEPT ![s] = Ok("update-projects")]
    /\ UNCHANGED <<messages, reactions, chatSettings, blockedKeywords, projectUpdates,
                   notifications, wsVars, sideVars, now>>

----------------------------------------------------------------------------
(* containsPhoneNumber: routes.ts 21-31.                                   *)

\* n digits at positions i..i+n-1 of t.
DigitsAt(t, i, n) == i >= 1 /\ i + n - 1 <= Len(t) /\ \A j \in i..(i + n - 1) : IsDigit(t[j])
CharAt(t, i, class) == i >= 1 /\ i <= Len(t) /\ t[i] \in class
\* \b between positions p-1 and p: exactly one side is a word character.
WordAt(t, p) == p >= 1 /\ p <= Len(t) /\ IsWordChar(t[p])
Boundary(t, p) == WordAt(t, p - 1) # WordAt(t, p)

SepSpaceDashDot == {" ", "-", "."}     \* [\s\-\.]
SepSpaceDash == {" ", "-"}             \* [\s\-]
CleanedAway == {" ", "-", "(", ")", ".", "+"}   \* [\s\-\(\)\.\+]

\* /\b\d{10,13}\b/
PhoneBare(t) ==
    \E i \in 1..Len(t), n \in 10..13 :
        Boundary(t, i) /\ DigitsAt(t, i, n) /\ Boundary(t, i + n)
\* /\b\d{3}[\s\-\.]\d{3}[\s\-\.]\d{4}\b/
Phone334(t) ==
    \E i \in 1..Len(t) :
        /\ Boundary(t, i) /\ DigitsAt(t, i, 3) /\ CharAt(t, i + 3, SepSpaceDashDot)
        /\ DigitsAt(t, i + 4, 3) /\ CharAt(t, i + 7, SepSpaceDashDot)
        /\ DigitsAt(t, i + 8, 4) /\ Boundary(t, i + 12)
\* /\+\d{1,3}[\s\-]?\d{6,12}\b/
PhoneIntl(t) ==
    \E i \in 1..Len(t), a \in 1..3, sep \in 0..1, b \in 6..12 :
        /\ t[i] = "+" /\ DigitsAt(t, i + 1, a)
        /\ (sep = 1 => CharAt(t, i + 1 + a, SepSpaceDash))
        /\ DigitsAt(t, i + 1 + a + sep, b) /\ Boundary(t, i + 1 + a + sep + b)
\* /\b\d{4}[\s\-]\d{3}[\s\-]\d{3}\b/
Phone433(t) ==
    \E i \in 1..Len(t) :
        /\ Boundary(t, i) /\ DigitsAt(t, i, 4) /\ CharAt(t, i + 4, SepSpaceDash)
        /\ DigitsAt(t, i + 5, 3) /\ CharAt(t, i + 8, SepSpaceDash)
        /\ DigitsAt(t, i + 9, 3) /\ Boundary(t, i + 12)
\* /\b\d{5}[\s\-]\d{5}\b/
Phone55(t) ==
    \E i \in 1..Len(t) :
        /\ Boundary(t, i) /\ DigitsAt(t, i, 5) /\ CharAt(t, i + 5, SepSpaceDash)
        /\ DigitsAt(t, i + 6, 5) /\ Boundary(t, i + 11)

\* text.replace(/[\s\-\(\)\.\+]/g, "")
RECURSIVE cleaned(_)
cleaned(t) ==
    IF t = <<>> THEN <<>>
    ELSE IF Head(t) \in CleanedAway THEN cleaned(Tail(t))
    ELSE <<Head(t)>> \o cleaned(Tail(t))

containsPhoneNumber(text) ==
    \/ PhoneBare(text) \/ Phone334(text) \/ PhoneIntl(text) \/ Phone433(text) \/ Phone55(text)
    \/ \E i \in 1..Len(cleaned(text)) : DigitsAt(cleaned(text), i, 10)       \* /\d{10,}/

----------------------------------------------------------------------------
(* Sending: routes.ts 486-589.  A step is one awaited storage call with    *)
(* the synchronous code that follows it, up to the next awaited call.      *)

MsgRestricted == "You are restricted from sending messages"
MsgChatDisabled == "Chat is disabled"
MsgKeyword == "Your message contains a restricted word and cannot be sent."
MsgPhone == "Sharing phone numbers is not allowed in this chat."
MsgFileSend == "File sharing is currently disabled for members."

\* sender.restrictedUntil && new Date(sender.restrictedUntil) > new Date()
Restricted_member_only(member, t) ==
    /\ member.restrictedUntil # Null /\ Val(member.restrictedUntil) > t
    /\ ~isAdminRole(member.role)
Restricted(member, t) == member.restrictedUntil # Null /\ Val(member.restrictedUntil) > t

\* settings.chatDisabled && !isAdminRole(sender.role)
ChatClosedFor(settings, role) == settings.chatDisabled /\ ~isAdminRole(role)

\* JS truthiness of req.body.content: neither undefined nor "".
Truthy(content) == content # Null /\ Val(content) # <<>>

\* req.body.content && !isAdminRole(sender.role)
ScansContent_everyone(content, role) == Truthy(content)
ScansContent(content, role) == Truthy(content) /\ ~isAdminRole(role)

\* keywords.find((k) => contentLower.includes(k.keyword))
KeywordBlocked(content, keywords) == \E k \in keywords : includes(toLowerCase(content), k)

\* The locals of a POST /api/messages or POST /api/messages/upload handler.
SendLocals(op, senderId, body) ==
    [op |-> op, pc |-> "settings", senderId |-> senderId, role |-> members[senderId].role,
     content |-> body.content, type |-> body.type, fileUrl |-> body.fileUrl,
     replyToId |-> body.replyToId, phoneNumberFilterEnabled |-> FALSE,
     mentions |-> <<>>, msg |-> Null, repliedMsg |-> Null, notifiedIds |-> {},
     allMembers |-> <<>>, next |-> 0]

\* What a finished send leaves in its slot: the answer, and who sent what.
SendAnswered(r, status, message) ==
    [op |-> r.op, pc |-> "done", status |-> status, message |-> message,
     senderId |-> r.senderId, role |-> r.role, content |-> r.content, msg |-> r.msg]

MayStartSend ==
    Len(messages) + Cardinality(InFlight("send") \cup InFlight("upload")) < MaxMessages

\* POST /api/messages: getMember and the restriction check.
SendRead(s, senderId, body) ==
    /\ Accepts(s)
    /\ MayStartSend
    /\ reqs' = [reqs EXCEPT ![s] =
          IF senderId \notin DOMAIN members
            THEN Answered("send", 400, "Invalid sender")
          ELSE IF Restricted(members[senderId], now)
            THEN SendAnswered(SendLocals("send", senderId, body), 403, MsgRestricted)
          ELSE SendLocals("send", senderId, body)]
    /\ NoBroadcast
    /\ UNCHANGED <<dbVars, wsVars, sideVars, now>>

\* getChatSettings and the chat-disabled check.
SendSettings_check_skipped(s) ==
    /\ reqs[s].op = "send" /\ reqs[s].pc = "settings"
    /\ reqs' = [reqs EXCEPT ![s] =
          IF ScansContent(reqs[s].content, reqs[s].role)
            THEN [reqs[s] EXCEPT !.pc = "keywords",
                     !.phoneNumberFilterEnabled = chatSettings.phoneNumberFilterEnabled]
            ELSE [reqs[s] EXCEPT !.pc = "create"]]
    /\ NoBroadcast
    /\ UNCHANGED <<dbVars, wsVars, sideVars, now>>
SendSettings(s) ==
    /\ reqs[s].op = "send" /\ reqs[s].pc = "settings"
    /\ reqs' = [reqs EXCEPT ![s] =
          IF ChatClosedFor(chatSettings, reqs[s].role)
            THEN SendAnswered(reqs[s], 403, MsgChatDisabled)
          ELSE IF ScansContent(reqs[s].content, reqs[s].role)
            THEN [reqs[s] EXCEPT !.pc = "keywords",
                     !.phoneNumberFilterEnabled = chatSettings.phoneNumberFilterEnabled]
          ELSE [reqs[s] EXCEPT !.pc = "create"]]
    /\ NoBroadcast
    /\ UNCHANGED <<dbVars, wsVars, sideVars, now>>

\* getBlockedKeywords, the keyword check and the phone-number check.
SendKeywords_persists_first(s) ==
    /\ reqs[s].op = "send" /\ reqs[s].pc = "keywords"
    /\ LET r == reqs[s]
           row == Message(r.senderId, r.content, r.type, r.fileUrl, r.replyToId, Null, now)
           found == KeywordBlocked(Val(r.content), {k.keyword : k \in blockedKeywords})
       IN /\ messages' = IF found THEN Append(messages, row) ELSE messages
          /\ reqs' = [reqs EXCEPT ![s] =
                IF found THEN SendAnswered(r, 403, MsgKeyword)
                ELSE IF r.phoneNumberFilterEnabled /\ containsPhoneNumber(Val(r.content))
                  THEN SendAnswered(r, 403, MsgPhone)
                ELSE [r EXCEPT !.pc = "create"]]
    /\ NoBroadcast
    /\ UNCHANGED <<members, reactions, chatSettings, blockedKeywords, projectUpdates,
                   notifications, wsVars, sideVars, now>>
SendKeywords(s) ==
    /\ reqs[s].op = "send" /\ reqs[s].pc = "keywords"
    /\ reqs' = [reqs EXCEPT ![s] =
          IF KeywordBlocked(Val(reqs[s].content), {k.keyword : k \in blockedKeywords})
            THEN SendAnswered(reqs[s], 403, MsgKeyword)
          ELSE IF reqs[s].phoneNumberFilterEnabled /\ containsPhoneNumber(Val(reqs[s].content))
            THEN SendAnswered(reqs[s], 403, MsgPhone)
          ELSE [reqs[s] EXCEPT !.pc = "create"]]
    /\ NoBroadcast
    /\ UNCHANGED <<dbVars, wsVars, sideVars, now>>

----------------------------------------------------------------------------
(* Mentions: the "@" matches of the content, routes.ts 511.                *)

RECURSIVE WordEnd(_, _), MentionEnd(_, _), MentionsFrom(_, _)
\* The last position of the run of word characters that starts at j.
WordEnd(t, j) == IF WordAt(t, j + 1) THEN WordEnd(t, j + 1) ELSE j
\* The last position of words joined by single spaces, matched greedily from j.
MentionEnd(t, j) ==
    LET e == WordEnd(t, j)
    IN IF CharAt(t, e + 1, {" "}) /\ WordAt(t, e + 2) THEN MentionEnd(t, e + 2) ELSE e
\* The matches at or after position i, left to right, each without its "@".
MentionsFrom(t, i) ==
    IF i > Len(t) THEN <<>>
    ELSE IF t[i] = "@" /\ WordAt(t, i + 1)
      THEN <<SubSeq(t, i + 1, MentionEnd(t, i + 1))>> \o MentionsFrom(t, MentionEnd(t, i + 1) + 1)
    ELSE MentionsFrom(t, i + 1)
extractMentions(content) == IF content = Null THEN <<>> ELSE MentionsFrom(Val(content), 1)

\* allMembers.find((m) => m.name.toLowerCase() === mentionName.toLowerCase())
findMentioned(allMembers, mentionName) ==
    LET hits == {id \in DOMAIN allMembers :
                    toLowerCase(allMembers[id].name) = toLowerCase(mentionName)}
    IN IF hits = {} THEN Null ELSE Some(CHOOSE id \in hits : TRUE)

\* mentioned && mentioned.id !== senderId && !notifiedIds.has(mentioned.id)
NotifiesMention_self_included(r, allMembers, k) ==
    LET mentioned == findMentioned(allMembers, r.mentions[k])
    IN mentioned # Null /\ Val(mentioned) \notin r.notifiedIds
NotifiesMention(r, allMembers, k) ==
    LET mentioned == findMentioned(allMembers, r.mentions[k])
    IN mentioned # Null /\ Val(mentioned) # r.senderId /\ Val(mentioned) \notin r.notifiedIds

\* The loop over mentions runs on to the next createNotification; 0 when it runs out.
RECURSIVE NextMention(_, _, _)
NextMention(r, allMembers, k) ==
    IF k > Len(r.mentions) THEN 0
    ELSE IF NotifiesMention(r, allMembers, k) THEN k
    ELSE NextMention(r, allMembers, k + 1)

Notification(recipientId, senderId, messageId, type) ==
    [recipientId |-> recipientId, senderId |-> senderId, messageId |-> messageId,
     type |-> type, isRead |-> FALSE]

\* After the reply part: on to the mentions, or res.json(msg).
AfterReply(r) ==
    IF Len(r.mentions) > 0 THEN [r EXCEPT !.pc = "members"] ELSE SendAnswered(r, 200, "success")
\* After createMessage: on to the reply part.
AfterCreate(r) == IF r.replyToId # Null THEN [r EXCEPT !.pc = "reply"] ELSE AfterReply(r)

\* A faulty variant: the new_message event goes out, the row is not stored.
CreateStep_broadcast_only(s, op) ==
    /\ reqs[s].op = op /\ reqs[s].pc = "create"
    /\ LET r == reqs[s]
           mentions == IF op = "send" THEN extractMentions(r.content) ELSE <<>>
           row == Message(r.senderId, r.content, r.type, r.fileUrl, r.replyToId,
                          IF Len(mentions) > 0 THEN Some(mentions) ELSE Null, now)
           id == Len(messages) + 1
       IN /\ reqs' = [reqs EXCEPT ![s] = AfterCreate([r EXCEPT !.mentions = mentions, !.msg = Some(id)])]
          /\ broadcast(clients, [type |-> "new_message", messageId |-> id, message |-> row])
    /\ UNCHANGED <<dbVars, wsVars, sideVars, now>>
\* createMessage and the new_message broadcast.
CreateStep(s, op) ==
    /\ reqs[s].op = op /\ reqs[s].pc = "create"
    /\ LET r == reqs[s]
           mentions == IF op = "send" THEN extractMentions(r.content) ELSE <<>>
           row == Message(r.senderId, r.content, r.type, r.fileUrl, r.replyToId,
                          IF Len(mentions) > 0 THEN Some(mentions) ELSE Null, now)
           id == Len(messages) + 1
       IN /\ messages' = Append(messages, row)
          /\ reqs' = [reqs EXCEPT ![s] = AfterCreate([r EXCEPT !.mentions = mentions, !.msg = Some(id)])]
          /\ broadcast(clients, [type |-> "new_message", messageId |-> id, message |-> row])
    /\ UNCHANGED <<members, reactions, chatSettings, blockedKeywords, projectUpdates,
                   notifications, wsVars, sideVars, now>>

\* getMessage(replyToId) and the self-reply check.
ReplyStep_forgets_recipient(s, op) ==
    /\ reqs[s].op = op /\ reqs[s].pc = "reply"
    /\ LET r == reqs[s]
           repliedMsg == getMessage(Val(r.replyToId))
       IN reqs' = [reqs EXCEPT ![s] =
             IF repliedMsg # Null /\ Val(repliedMsg).senderId # r.senderId
               THEN [r EXCEPT !.pc = "replyNotify", !.repliedMsg = repliedMsg]
               ELSE AfterReply(r)]
    /\ NoBroadcast
    /\ UNCHANGED <<dbVars, wsVars, sideVars, now>>
ReplyStep(s, op) ==
    /\ reqs[s].op = op /\ reqs[s].pc = "reply"
    /\ LET r == reqs[s]
           repliedMsg == getMessage(Val(r.replyToId))
       IN reqs' = [reqs EXCEPT ![s] =
             IF repliedMsg # Null /\ Val(repliedMsg).senderId # r.senderId
               THEN [r EXCEPT !.pc = "replyNotify", !.repliedMsg = repliedMsg,
                              !.notifiedIds = {Val(repliedMsg).senderId}]
               ELSE AfterReply(r)]
    /\ NoBroadcast
    /\ UNCHANGED <<dbVars, wsVars, sideVars, now>>

\* createNotification for the reply and its broadcast.
ReplyNotifyStep(s, op) ==
    /\ reqs[s].op = op /\ reqs[s].pc = "replyNotify"
    /\ LET r == reqs[s]
           notif == Notification(Val(r.repliedMsg).senderId, r.senderId, Val(r.msg), "reply")
       IN /\ notifications' = Append(notifications, notif)
          /\ reqs' = [reqs EXCEPT ![s] = AfterReply(r)]
          /\ broadcast(clients, [type |-> "notification", recipientId |-> notif.recipientId,
                                 notification |-> notif])
    /\ UNCHANGED <<members, messages, reactions, chatSettings, blockedKeywords,
                   projectUpdates, wsVars, sideVars, now>>

SendCreate(s) == CreateStep(s, "send")
SendReply(s) == ReplyStep(s, "send")
SendReplyNotify(s) == ReplyNotifyStep(s, "send")

\* getAllMembers, and the loop up to its first createNotification.
SendMembers(s) ==
    /\ reqs[s].op = "send" /\ reqs[s].pc = "members"
    /\ LET r == reqs[s]
           k == NextMention(r, members, 1)
       IN reqs' = [reqs EXCEPT ![s] =
             IF k = 0 THEN SendAnswered(r, 200, "success")
             ELSE [r EXCEPT !.pc = "mention", !.allMembers = members, !.next = k]]
    /\ NoBroadcast
    /\ UNCHANGED <<dbVars, wsVars, sideVars, now>>

\* createNotification for one mention, its broadcast, and the loop up to the next.
SendMention(s) ==
    /\ reqs[s].op = "send" /\ reqs[s].pc = "mention"
    /\ LET r == reqs[s]
           mentioned == Val(findMentioned(r.allMembers, r.mentions[r.next]))
           notif == Notification(mentioned, r.senderId, Val(r.msg), "mention")
           r2 == [r EXCEPT !.notifiedIds = r.notifiedIds \cup {mentioned}]
           k == NextMention(r2, r.allMembers, r.next + 1)
       IN /\ notifications' = Append(notifications, notif)
          /\ reqs' = [reqs EXCEPT ![s] =
                IF k = 0 THEN SendAnswered(r2, 200, "success") ELSE [r2 EXCEPT !.next = k]]
          /\ broadcast(clients, [type |-> "notification", recipientId |-> mentioned,
                                 notification |-> notif])
    /\ UNCHANGED <<members, messages, reactions, chatSettings, blockedKeywords,
                   projectUpdates, wsVars, sideVars, now>>

----------------------------------------------------------------------------
(* File upload: routes.ts 550-589.                                         *)

\* The message an upload creates: no content, the type from the mimetype.
UploadBody(file, replyToId) ==
    [content |-> Null, type |-> IF file.isImage THEN "image" ELSE "file",
     fileUrl |-> Some(file.filename), replyToId |-> replyToId]

\* A request without an accepted file is answered 400.
UploadNoFile(s) ==
    /\ Accepts(s)
    /\ MayStartSend
    /\ reqs' = [reqs EXCEPT ![s] = Answered("upload", 400, "No file uploaded")]
    /\ NoBroadcast
    /\ UNCHANGED <<dbVars, wsVars, sideVars, now>>

\* POST /api/messages/upload: getMember and the restriction check.
UploadRead(s, senderId, file, replyToId) ==
    /\ Accepts(s)
    /\ MayStartSend
    /\ reqs' = [reqs EXCEPT ![s] =
          IF senderId \notin DOMAIN members
            THEN Answered("upload", 400, "Invalid sender")
          ELSE IF Restricted(members[senderId], now)
            THEN SendAnswered(SendLocals("upload", senderId, UploadBody(file, replyToId)),
                              403, MsgRestricted)
          ELSE SendLocals("upload", senderId, UploadBody(file, replyToId))]
    /\ NoBroadcast
    /\ UNCHANGED <<dbVars, wsVars, sideVars, now>>

\* getChatSettings and the file-send check.
UploadSettings(s) ==
    /\ reqs[s].op = "upload" /\ reqs[s].pc = "settings"
    /\ reqs' = [reqs EXCEPT ![s] =
          IF chatSettings.memberFileSendDisabled /\ ~isAdminRole(reqs[s].role)
            THEN SendAnswered(reqs[s], 403, MsgFileSend)
            ELSE [reqs[s] EXCEPT !.pc = "create"]]
    /\ NoBroadcast
    /\ UNCHANGED <<dbVars, wsVars, sideVars, now>>

UploadCreate(s) == CreateStep(s, "upload")
UploadReply(s) == ReplyStep(s, "upload")
UploadReplyNotify(s) == ReplyNotifyStep(s, "upload")

----------------------------------------------------------------------------
(* Moderation requests that change what the send checks read: routes.ts    *)
(* 329-347, 673-730 with storage.ts 152-183.  Each is taken as one step;   *)
(* its answer is not kept.                                                 *)

\* POST /api/members/:id/restrict
Restrict(memberId, targetId, hours) ==
    /\ requireAdmin(memberId)
    /\ IF /\ targetId \in DOMAIN members
          /\ members[targetId].phone = PRIMARY_ADMIN_PHONE
          /\ members[memberId].role = "sub-admin"
         THEN /\ UNCHANGED members
              /\ NoBroadcast
         ELSE /\ members' = IF targetId \in DOMAIN members
                              THEN [members EXCEPT ![targetId].restrictedUntil = Some(now + hours)]
                              ELSE members
              /\ broadcast(clients, [type |-> "member_updated",
                     member |-> IF targetId \in DOMAIN members THEN Some(members'[targetId]) ELSE Null])
    /\ UNCHANGED <<messages, reactions, chatSettings, blockedKeywords, projectUpdates,
                   notifications, wsVars, sideVars, reqs, now>>

\* POST /api/members/:id/unrestrict
Unrestrict(memberId, targetId) ==
    /\ requireAdmin(memberId)
    /\ members' = IF targetId \in DOMAIN members
                    THEN [members EXCEPT ![targetId].restrictedUntil = Null]
                    ELSE members
    /\ broadcast(clients, [type |-> "member_updated",
           member |-> IF targetId \in DOMAIN members THEN Some(members'[targetId]) ELSE Null])
    /\ UNCHANGED <<messages, reactions, chatSettings, blockedKeywords, projectUpdates,
                   notifications, wsVars, sideVars, reqs, now>>

\* The three toggles of the settings row: each flips the value it read.
SettingsRequest(memberId, settings) ==
    /\ requireAdmin(memberId)
    /\ chatSettings' = settings
    /\ broadcast(clients, [type |-> "chat_settings_updated", settings |-> settings])
    /\ UNCHANGED <<members, messages, reactions, blockedKeywords, projectUpdates,
                   notifications, wsVars, sideVars, reqs, now>>

\* POST /api/chat-settings/toggle
toggleChat(memberId) ==
    SettingsRequest(memberId, [chatSettings EXCEPT !.chatDisabled = ~chatSettings.chatDisabled])
\* POST /api/chat-settings/toggle-file-send
toggleMemberFileSend(memberId) ==
    SettingsRequest(memberId, [chatSettings EXCEPT
        !.memberFileSendDisabled = ~chatSettings.memberFileSendDisabled])
\* POST /api/chat-settings/toggle-phone-filter
togglePhoneNumberFilter(memberId) ==
    SettingsRequest(memberId, [chatSettings EXCEPT
        !.phoneNumberFilterEnabled = ~chatSettings.phoneNumberFilterEnabled])

KeywordIds == 1..MaxKeywords
FreshKeywordId == CHOOSE i \in KeywordIds : \A k \in blockedKeywords : k.id # i

\* POST /api/blocked-keywords: the route trims, storage lower-cases and trims.
addBlockedKeyword(memberId, raw) ==
    /\ requireAdmin(memberId)
    /\ Cardinality(blockedKeywords) < MaxKeywords
    /\ blockedKeywords' =
          IF trim(raw) = <<>> THEN blockedKeywords
          ELSE blockedKeywords \cup {[id |-> FreshKeywordId, keyword |-> trim(toLowerCase(trim(raw)))]}
    /\ NoBroadcast
    /\ UNCHANGED <<members, messages, reactions, chatSettings, projectUpdates,
                   notifications, wsVars, sideVars, reqs, now>>

\* DELETE /api/blocked-keywords/:id
removeBlockedKeyword(memberId, id) ==
    /\ requireAdmin(memberId)
    /\ blockedKeywords' = {k \in blockedKeywords : k.id # id}
    /\ NoBroadcast
    /\ UNCHANGED <<members, messages, reactions, chatSettings, projectUpdates,
                   notifications, wsVars, sideVars, reqs, now>>

\* Time passes: new Date() grows.
Tick ==
    /\ now < MaxTime
    /\ now' = now + 1
    /\ NoBroadcast
    /\ UNCHANGED <<dbVars, wsVars, sideVars, reqs>>

----------------------------------------------------------------------------
(* Reading the chat: GET /api/messages, routes.ts 469-484, and the         *)
(* disappearing window, routes.ts 679-684 with storage.ts 158-162.         *)

\* getMessages: every row, oldest first; a row is returned with its id.
getMessages == [i \in 1..Len(messages) |-> [id |-> i] @@ messages[i]]

\* msgs.filter(m => !m.isDeleted)
NotDeleted_everything(msgs) == msgs
NotDeleted(msgs) == SelectSeq(msgs, LAMBDA m : ~m.isDeleted)

\* settings.disappearAfterHours: a number other than 0.
HasWindow(settings) ==
    settings.disappearAfterHours # Null /\ Val(settings.disappearAfterHours) # 0

\* msgs.filter(m => m.isPinned || new Date(m.createdAt) >= cutoff)
SinceCutoff_pinned_too(msgs, cutoff) == SelectSeq(msgs, LAMBDA m : m.createdAt >= cutoff)
SinceCutoff(msgs, cutoff) == SelectSeq(msgs, LAMBDA m : m.isPinned \/ m.createdAt >= cutoff)

\* member && member.firstLoginAt && !isAdminRole(member.role)
HistoryHidden_admins_too(member) == member # Null /\ Val(member).firstLoginAt # Null
HistoryHidden(member) ==
    member # Null /\ Val(member).firstLoginAt # Null /\ ~isAdminRole(Val(member).role)

\* GET /api/messages: getMember.
GetRead(s, memberId) ==
    /\ Accepts(s)
    /\ reqs' = [reqs EXCEPT ![s] =
          [op |-> "getMessages", pc |-> "messages",
           member |-> IF memberId \in DOMAIN members THEN Some(members[memberId]) ELSE Null]]
    /\ NoBroadcast
    /\ UNCHANGED <<dbVars, wsVars, sideVars, now>>

\* getMessages and the filter on isDeleted.
GetMessages(s) ==
    /\ reqs[s].op = "getMessages" /\ reqs[s].pc = "messages"
    /\ reqs' = [reqs EXCEPT ![s] =
          [op |-> "getMessages", pc |-> "settings", member |-> reqs[s].member,
           msgs |-> NotDeleted(getMessages)]]
    /\ NoBroadcast
    /\ UNCHANGED <<dbVars, wsVars, sideVars, now>>

\* getChatSettings, the window filter, the first-login filter and the answer.
GetSettings(s) ==
    /\ reqs[s].op = "getMessages" /\ reqs[s].pc = "settings"
    /\ LET r == reqs[s]
           msgs == IF HasWindow(chatSettings)
                     THEN SinceCutoff(r.msgs, now - Val(chatSettings.disappearAfterHours))
                     ELSE r.msgs
           body == IF HistoryHidden(r.member)
                     THEN SinceCutoff(msgs, Val(Val(r.member).firstLoginAt))
                     ELSE msgs
       IN reqs' = [reqs EXCEPT ![s] =
             [op |-> "getMessages", pc |-> "done", status |-> 200, message |-> "success",
              member |-> r.member, body |-> body]]
    /\ NoBroadcast
    /\ UNCHANGED <<dbVars, wsVars, sideVars, now>>

\* PATCH /api/chat-settings/disappear, taken as one step.
setDisappearTime(memberId, hours) ==
    /\ requireAdmin(memberId)
    /\ chatSettings' = [chatSettings EXCEPT !.disappearAfterHours =
                           IF hours = Null \/ hours = Some(0) THEN Null ELSE hours]
    /\ broadcast(clients, [type |-> "chat_settings_updated", settings |-> chatSettings'])
    /\ UNCHANGED <<members, messages, reactions, blockedKeywords, projectUpdates,
                   notifications, wsVars, sideVars, reqs, now>>

----------------------------------------------------------------------------
(* Member records: PATCH /api/members/:id (routes.ts 240-263) and          *)
(* DELETE /api/members/:id (routes.ts 377-395), each taken as one step.    *)

\* The fields of req.body that the PATCH copies: those that are not undefined.
allowedFields(member, body) ==
    [member EXCEPT !.name = IF body.name # Null THEN Val(body.name) ELSE @,
                   !.phone = IF body.phone # Null THEN Val(body.phone) ELSE @,
                   !.isActive = IF body.isActive # Null THEN Val(body.isActive) ELSE @]

\* members.phone is unique: the update fails when another row holds the phone.
PhoneTaken(targetId, body) ==
    body.phone # Null /\ \E id \in DOMAIN members \ {targetId} : members[id].phone = Val(body.phone)

\* The request is answered with an error and nothing is written.
PatchRefused(memberId, targetId, body) ==
    \/ targetId \notin DOMAIN members
    \/ members[targetId].phone = PRIMARY_ADMIN_PHONE /\ members[memberId].role = "sub-admin"
    \/ body.name = Null /\ body.phone = Null /\ body.isActive = Null
    \/ PhoneTaken(targetId, body)

PatchMember(memberId, targetId, body) ==
    /\ requireAdmin(memberId)
    /\ IF PatchRefused(memberId, targetId, body)
         THEN /\ UNCHANGED members
              /\ NoBroadcast
         ELSE /\ members' = [members EXCEPT ![targetId] = allowedFields(@, body)]
              /\ broadcast(clients, [type |-> "member_updated", member |-> Some(members'[targetId])])
    /\ UNCHANGED <<messages, reactions, chatSettings, blockedKeywords, projectUpdates,
                   notifications, wsVars, sideVars, reqs, now>>

DeleteRefused(memberId, targetId) ==
    \/ targetId \notin DOMAIN members
    \/ members[targetId].phone = PRIMARY_ADMIN_PHONE
    \/ members[targetId].role = "sub-admin" /\ members[memberId].role = "sub-admin"

DeleteMember(memberId, targetId) ==
    /\ requireAdmin(memberId)
    /\ IF DeleteRefused(memberId, targetId)
         THEN /\ UNCHANGED members
              /\ NoBroadcast
         ELSE /\ members' = MapDelete(members, targetId)
              /\ broadcast(clients, [type |-> "member_updated", member |-> Null])
    /\ UNCHANGED <<messages, reactions, chatSettings, blockedKeywords, projectUpdates,
                   notifications, wsVars, sideVars, reqs, now>>

----------------------------------------------------------------------------
(* Login by one-time password: routes.ts 171-209.  otpStore (routes.ts 112)*)
(* keeps, per phone, the OTP issued last and when it expires.  The clock   *)
(* counts hours and an OTP lives five minutes, so an OTP is expired as     *)
(* soon as the clock has moved past its hour of issue.                     *)

\* storage.getMemberByPhone: the id of the row with that phone (phone is unique).
getMemberByPhone(phone) ==
    IF \E id \in DOMAIN members : members[id].phone = phone
      THEN Some(CHOOSE id \in DOMAIN members : members[id].phone = phone)
      ELSE Null

\* !stored || stored.otp !== otp || stored.expires < Date.now()
OtpRejected(phone, otp) ==
    \/ phone \notin DOMAIN otpStore
    \/ otpStore[phone].otp # otp
    \/ otpStore[phone].issuedAt < now

\* POST /api/auth/request-otp up to the await of sendOtpViaWati: the member
\* is looked up and, when there is one, a fresh OTP replaces the stored one.
RequestOtp(s, phone, otp) ==
    /\ Accepts(s)
    /\ IF getMemberByPhone(phone) = Null
         THEN /\ reqs' = [reqs EXCEPT ![s] = Answered("request-otp", 404, "Phone number not registered")]
              /\ UNCHANGED otpStore
         ELSE /\ otpStore' = MapSet(otpStore, phone, [otp |-> otp, issuedAt |-> now])
              /\ reqs' = [reqs EXCEPT ![s] = [op |-> "request-otp", pc |-> "send", phone |-> phone]]
    /\ NoBroadcast
    /\ UNCHANGED <<dbVars, wsVars, browser, now>>

\* sendOtpViaWati has answered: the OTP stays stored whether it was sent or not.
RequestOtpSent(s, sent) ==
    /\ reqs[s].op = "request-otp" /\ reqs[s].pc = "send"
    /\ reqs' = [reqs EXCEPT ![s] =
                  IF sent THEN Answered("request-otp", 200, "OTP sent to your WhatsApp")
                          ELSE Answered("request-otp", 500, "Failed to send OTP")]
    /\ NoBroadcast
    /\ UNCHANGED <<dbVars, wsVars, sideVars, now>>

\* POST /api/auth/verify-otp up to the await of getMemberByPhone: the OTP is
\* checked and consumed before the handler yields.
VerifyOtp(s, phone, otp) ==
    /\ Accepts(s)
    /\ IF OtpRejected(phone, otp)
         THEN /\ reqs' = [reqs EXCEPT ![s] = Answered("verify-otp", 400, "Invalid or expired OTP")]
              /\ UNCHANGED otpStore
         ELSE /\ otpStore' = MapDelete(otpStore, phone)
              /\ reqs' = [reqs EXCEPT ![s] = [op |-> "verify-otp", pc |-> "member", phone |-> phone]]
    /\ NoBroadcast
    /\ UNCHANGED <<dbVars, wsVars, browser, now>>

\* The member row has been read: a row without firstLoginAt gets the current
\* time, new Date() being taken here, before the await of updateMember.
VerifyMember(s) ==
    /\ reqs[s].op = "verify-otp" /\ reqs[s].pc = "member"
    /\ LET member == getMemberByPhone(reqs[s].phone)
       IN  reqs' = [reqs EXCEPT ![s] =
                      IF member = Null
                        THEN Answered("verify-otp", 404, "Member not found")
                      ELSE IF members[Val(member)].firstLoginAt = Null
                        THEN [op |-> "verify-otp", pc |-> "update", phone |-> reqs[s].phone,
                              memberId |-> Val(member), firstLoginAt |-> now]
                      ELSE [Ok("verify-otp") EXCEPT !.message = Val(member)]]
    /\ NoBroadcast
    /\ UNCHANGED <<dbVars, wsVars, sideVars, now>>

\* updateMember(member.id, { firstLoginAt })
FirstLogin(row, at) == [row EXCEPT !.firstLoginAt = Some(at)]

\* updateMember has returned: the session is bound and the row read earlier is sent.
VerifyUpdate(s) ==
    /\ reqs[s].op = "verify-otp" /\ reqs[s].pc = "update"
    /\ members' = IF reqs[s].memberId \in DOMAIN members
                    THEN [members EXCEPT ![reqs[s].memberId] = FirstLogin(@, reqs[s].firstLoginAt)]
                    ELSE members
    /\ reqs' = [reqs EXCEPT ![s] = [Ok("verify-otp") EXCEPT !.message = reqs[s].memberId]]
    /\ NoBroadcast
    /\ UNCHANGED <<messages, reactions, chatSettings, blockedKeywords, projectUpdates,
                   notifications, wsVars, sideVars, now>>

----------------------------------------------------------------------------
(* The member directory: GET /api/members, routes.ts 229-238.              *)

PrivateFields == {"phone", "restrictedUntil", "firstLoginAt"}

\* The projection sent to a requester who is not an admin (routes.ts 235).
PublicMember(m) ==
    [name |-> m.name, role |-> m.role, isActive |-> m.isActive,
     projectsCompleted |-> m.projectsCompleted, totalProjectValue |-> m.totalProjectValue]

\* requireAuth, then getAllMembers has returned; getMember of the requester is awaited.
GetMembersRead(s, memberId) ==
    /\ Accepts(s)
    /\ reqs' = [reqs EXCEPT ![s] = [op |-> "members", pc |-> "requester",
                                    memberId |-> memberId, all |-> members]]
    /\ NoBroadcast
    /\ UNCHANGED <<dbVars, wsVars, sideVars, now>>

\* The requester's row has been read: admins get the rows, others the projection.
GetMembersAnswer(s) ==
    /\ reqs[s].op = "members" /\ reqs[s].pc = "requester"
    /\ LET r == reqs[s]
           admin == r.memberId \in DOMAIN members /\ isAdminRole(members[r.memberId].role)
       IN  reqs' = [reqs EXCEPT ![s] =
                      [op |-> "members", pc |-> "done", status |-> 200, memberId |-> r.memberId,
                       body |-> IF admin THEN r.all
                                         ELSE [id \in DOMAIN r.all |-> PublicMember(r.all[id])]]]
    /\ NoBroadcast
    /\ UNCHANGED <<dbVars, wsVars, sideVars, now>>

----------------------------------------------------------------------------
(* The browser: the WebSocketProvider and the chat page's register effect  *)
(* for one logged-in member.  browser.ws is wsRef.current, named by the id *)
(* the server gives the connection; readyState is that socket's;           *)
(* isConnected the React state; timer the pending reconnect timeout;       *)
(* effect the register effect of a render not yet run, with the            *)
(* isConnected value it closed over; sent whether a register message is on *)
(* its way on the current socket.  The effect of a render runs well within *)
(* the two seconds of the reconnect timer, so socket events wait for it.   *)

ClientMember == "u1"

\* The id the server gives the next connection it accepts.
NextConn == CHOOSE c \in ConnIds : clients[c] = "none" /\ \A d \in ConnIds : clients[d] = "none" => c <= d

\* setIsConnected(v): a changed value renders the page and queues the effect.
setIsConnected(b, v) == [b EXCEPT !.isConnected = v, !.effect = IF v # b.isConnected THEN Some(v) ELSE @]

\* A faulty variant: the close handler sets no reconnect timer.
onclose_no_retry(b) == [setIsConnected(b, FALSE) EXCEPT !.readyState = "closed", !.sent = FALSE]
\* ws.onclose: setIsConnected(false) and setTimeout(connect, 2000).
onclose(b) == [setIsConnected(b, FALSE) EXCEPT !.readyState = "closed", !.sent = FALSE, !.timer = TRUE]

\* connect(), called when the provider mounts and when the reconnect timer fires.
connect(b) == [b EXCEPT !.ws = Some(NextConn), !.readyState = "connecting", !.timer = FALSE, !.sent = FALSE]

\* The reconnect timer fires.
Reconnect ==
    /\ browser.timer /\ browser.effect = Null
    /\ \E c \in ConnIds : clients[c] = "none"
    /\ browser' = connect(browser)
    /\ NoBroadcast
    /\ UNCHANGED <<dbVars, wsVars, otpStore, reqs, now>>

\* The server accepts the connection the browser is opening.
Accept(c) ==
    /\ browser.ws = Some(c) /\ browser.readyState = "connecting"
    /\ Connection(c)

\* ws.onopen
OnOpen ==
    /\ browser.readyState = "connecting" /\ browser.effect = Null
    /\ clients[Val(browser.ws)] = "open"
    /\ browser' = [setIsConnected(browser, TRUE) EXCEPT !.readyState = "open"]
    /\ NoBroadcast
    /\ UNCHANGED <<dbVars, wsVars, otpStore, reqs, now>>

\* The chat page's effect: send() passes the register message to an open socket.
RegisterEffect ==
    /\ browser.effect # Null
    /\ browser' = [browser EXCEPT !.effect = Null,
                      !.sent = IF Val(browser.effect) /\ browser.readyState = "open" THEN TRUE ELSE @]
    /\ NoBroadcast
    /\ UNCHANGED <<dbVars, wsVars, otpStore, reqs, now>>

\* The register message reaches the server.
Register(c) ==
    /\ browser.ws = Some(c) /\ browser.sent
    /\ OnMessage(c, [json |-> TRUE, type |-> "register", memberId |-> ClientMember])

\* The connection attempt fails: ws.onerror closes the socket, ws.onclose follows.
ConnectFails ==
    /\ browser.readyState = "connecting" /\ browser.effect = Null
    /\ clients[Val(browser.ws)] = "none"
    /\ browser' = onclose(browser)
    /\ NoBroadcast
    /\ UNCHANGED <<dbVars, wsVars, otpStore, reqs, now>>

\* The browser learns that its connection has closed.
Closed ==
    /\ browser.readyState \in {"connecting", "open"} /\ browser.effect = Null
    /\ clients[Val(browser.ws)] = "closed"
    /\ browser' = onclose(browser)
    /\ NoBroadcast
    /\ UNCHANGED <<dbVars, wsVars, otpStore, reqs, now>>

\* The connection is lost or fails, while the server has ids left for new ones.
Drop(c) ==
    /\ clients[c] = "open"
    /\ \E d \in ConnIds : clients[d] = "none"
    /\ OnClose(c) \/ OnError(c)

\* The close event of a socket that reported an error.
CloseErrored(c) == clients[c] = "errored" /\ OnClose(c)

----------------------------------------------------------------------------
(* Initial values of the parts a specification does not exercise.          *)
SeedDb ==
    /\ members = SeedMembers
    /\ messages = SeedMessages
    /\ reactions = {}
    /\ chatSettings = [chatDisabled |-> FALSE, disappearAfterHours |-> Null,
                       memberFileSendDisabled |-> FALSE, phoneNumberFilterEnabled |-> FALSE]
    /\ blockedKeywords = {}
    /\ projectUpdates = <<>>
    /\ notifications = <<>>

\* No page has been loaded in the browser tab.
NoPage == [ws |-> Null, readyState |-> "closed", isConnected |-> FALSE,
           timer |-> FALSE, effect |-> Null, sent |-> FALSE]

NoSockets ==
    /\ onlineMembers = <<>>
    /\ clients = [c \in ConnIds |-> "none"]
    /\ otpStore = <<>>
    /\ browser = NoPage

----------------------------------------------------------------------------
(* SpecPresence: the WebSocket server alone.                               *)
PresenceInit ==
    /\ SeedDb
    /\ NoSockets
    /\ out = <<>>
    /\ reqs = [s \in Slots |-> Idle]
    /\ now = 0

PresenceNext ==
    \/ \E c \in ConnIds : Connection(c)
    \/ \E c \in ConnIds, raw \in RawMessages : OnMessage(c, raw)
    \/ \E c \in ConnIds : OnClose(c)
    \/ \E c \in ConnIds : OnError(c)

SpecPresence == PresenceInit /\ [][PresenceNext]_vars

----------------------------------------------------------------------------
(* SpecReact: concurrent POST /api/reactions requests.                     *)
ReactInit ==
    /\ SeedDb
    /\ NoSockets
    /\ out = <<>>
    /\ reqs = [s \in Slots |-> Idle]
    /\ now = 0

ReactNext ==
    \/ \E s \in Slots, m \in ReactMembers, x \in ReactMessageIds, e \in Emojis :
          ToggleSelect(s, m, x, e)
    \/ \E s \in Slots : ToggleDelete(s)
    \/ \E s \in Slots : ToggleInsert(s)

SpecReact == ReactInit /\ [][ReactNext]_vars

----------------------------------------------------------------------------
(* SpecReactSeq: POST /api/reactions requests of which those of one member *)
(* on one message run one after the other.                                 *)
NoToggleInFlight(memberId, messageId) ==
    \A t \in InFlight("toggleReaction") :
        reqs[t].memberId # memberId \/ reqs[t].messageId # messageId

ReactSeqInit ==
    /\ SeedDb
    /\ NoSockets
    /\ out = <<>>
    /\ reqs = [s \in Slots |-> Idle]
    /\ now = 0

ReactSeqNext ==
    \/ \E s \in Slots, m \in ReactMembers, x \in ReactMessageIds, e \in Emojis :
          NoToggleInFlight(m, x) /\ ToggleSelect(s, m, x, e)
    \/ \E s \in Slots : ToggleDelete(s)
    \/ \E s \in Slots : ToggleInsert(s)

SpecReactSeq == ReactSeqInit /\ [][ReactSeqNext]_vars

----------------------------------------------------------------------------
(* SpecMsg: concurrent pin, delete and bulk-delete requests.               *)
MsgInit ==
    /\ SeedDb
    /\ NoSockets
    /\ out = <<>>
    /\ reqs = [s \in Slots |-> Idle]
    /\ now = 0

MsgNext ==
    \/ \E s \in Slots, m \in DOMAIN members : RequireAdminRejects(s, m)
    \/ \E s \in Slots, m \in DOMAIN members, id \in TargetIds : PinRead(s, m, id)
    \/ \E s \in Slots : PinUpdate(s)
    \/ \E s \in Slots, m \in DOMAIN members, id \in TargetIds : DeleteCheck(s, m, id)
    \/ \E s \in Slots : DeleteUpdate(s)
    \/ \E s \in Slots, m \in DOMAIN members, ids \in BulkLists(TargetIds) : BulkStart(s, m, ids)
    \/ \E s \in Slots : BulkCheck(s)
    \/ \E s \in Slots : BulkUpdate(s)
    \/ \E s \in Slots : BulkBroadcast(s)

SpecMsg == MsgInit /\ [][MsgNext]_vars

----------------------------------------------------------------------------
(* SpecProj: concurrent POST /api/members/update-projects requests.        *)
ProjInit ==
    /\ SeedDb
    /\ NoSockets
    /\ out = <<>>
    /\ reqs = [s \in Slots |-> Idle]
    /\ now = 0

ProjNext ==
    \/ \E s \in Slots, m \in ProjMembers, pa \in ProjectsAddedInputs, va \in ValueAddedInputs :
          UpdateProjectsInvalid(s, m, pa, va)
    \/ \E s \in Slots, m \in ProjMembers, pa \in ProjectsAddedInputs, va \in ValueAddedInputs :
          UpdateProjectsRead(s, m, pa, va)
    \/ \E s \in Slots : UpdateProjectsAudit(s)
    \/ \E s \in Slots : UpdateProjectsWrite(s)

SpecProj == ProjInit /\ [][ProjNext]_vars

----------------------------------------------------------------------------
(* SpecSend: text sends and uploads among moderation requests.             *)
Hi == <<"h", "i">>
Shout == <<"S", "P", "A", "M">>
Digits10 == <<"9", "8", "7", "6", "5", "4", "3", "2", "1", "0">>
SpamDigits == <<"s", "p", "a", "m", " ">> \o Digits10
TwoMentions == <<"@", "r", "a", "v", "i", ",", "@", "S", "u", "b">>
RawKeywords == {<<" ", "S", "p", "a", "m">>}

Senders == {"s1", "u1"}
Moderators == {"a1"}
RestrictTargets == {"s1", "u1"}
TextBody(content, replyToId) ==
    [content |-> content, type |-> "text", fileUrl |-> Null, replyToId |-> replyToId]
Bodies ==
    {TextBody(c, Null) : c \in {Null, Some(Shout), Some(Digits10),
                                Some(SpamDigits), Some(TwoMentions)}}
      \cup {TextBody(Some(Hi), Some(2))}
Files == {[filename |-> "f1", isImage |-> TRUE]}
ReplyTargets == {Some(2)}

SendInit ==
    /\ SeedDb
    /\ NoSockets
    /\ out = <<>>
    /\ reqs = [s \in Slots |-> Idle]
    /\ now = 0

SendNext ==
    \/ \E s \in Slots, m \in Senders, b \in Bodies : SendRead(s, m, b)
    \/ \E s \in Slots : SendSettings(s)
    \/ \E s \in Slots : SendKeywords(s)
    \/ \E s \in Slots : SendCreate(s)
    \/ \E s \in Slots : SendReply(s)
    \/ \E s \in Slots : SendReplyNotify(s)
    \/ \E s \in Slots : SendMembers(s)
    \/ \E s \in Slots : SendMention(s)
    \/ \E s \in Slots, m \in Senders, f \in Files, t \in ReplyTargets : UploadRead(s, m, f, t)
    \/ \E s \in Slots : UploadNoFile(s)
    \/ \E s \in Slots : UploadSettings(s)
    \/ \E s \in Slots : UploadCreate(s)
    \/ \E s \in Slots : UploadReply(s)
    \/ \E s \in Slots : UploadReplyNotify(s)
    \/ \E m \in Moderators, t \in RestrictTargets : Restrict(m, t, 1)
    \/ \E m \in Moderators, t \in RestrictTargets : Unrestrict(m, t)
    \/ \E m \in Moderators : toggleChat(m)
    \/ \E m \in Moderators : toggleMemberFileSend(m)
    \/ \E m \in Moderators : togglePhoneNumberFilter(m)
    \/ \E m \in Moderators, k \in RawKeywords : addBlockedKeyword(m, k)
    \/ \E m \in Moderators, id \in KeywordIds : removeBlockedKeyword(m, id)
    \/ Tick

SpecSend == SendInit /\ [][SendNext]_vars

----------------------------------------------------------------------------
(* SpecNotify: text sends and uploads with replies and mentions, the       *)
(* settings and the roster left as seeded.                                 *)
RepeatedMention == <<"@", "R", "a", "v", "i", " ", "@", "R", "A", "V", "I">>
FullName == <<"@", "p", "r", "i", "y", "a", " ", "p", "a", "t", "e", "l">>
NameThenWords == <<"@", "R", "a", "v", "i", " ", "h", "i">>

\* A request body that names its own type and fileUrl.
RawBody(content, type, fileUrl) ==
    [content |-> content, type |-> type, fileUrl |-> fileUrl, replyToId |-> Null]
NotifyBodies ==
    {TextBody(Some(c), Null) : c \in {TwoMentions, RepeatedMention, FullName, NameThenWords}}
      \cup {TextBody(Some(TwoMentions), Some(2)), TextBody(Some(Hi), Some(1)),
            TextBody(Some(Hi), Some(UnknownId))}
      \cup {RawBody(Some(Hi), "text", Some("f1")), RawBody(Some(Hi), "image", Some("f1")),
            RawBody(Null, "text", Null)}
NotifyFiles == {[filename |-> "f1", isImage |-> TRUE], [filename |-> "f2", isImage |-> FALSE]}
NotifyReplyTargets == {Null, Some(1), Some(2)}

NotifyInit ==
    /\ SeedDb
    /\ NoSockets
    /\ out = <<>>
    /\ reqs = [s \in Slots |-> Idle]
    /\ now = 0

NotifyNext ==
    \/ \E s \in Slots, m \in Senders, b \in NotifyBodies : SendRead(s, m, b)
    \/ \E s \in Slots : SendSettings(s)
    \/ \E s \in Slots : SendKeywords(s)
    \/ \E s \in Slots : SendCreate(s)
    \/ \E s \in Slots : SendReply(s)
    \/ \E s \in Slots : SendReplyNotify(s)
    \/ \E s \in Slots : SendMembers(s)
    \/ \E s \in Slots : SendMention(s)
    \/ \E s \in Slots, m \in Senders, f \in NotifyFiles, t \in NotifyReplyTargets :
          UploadRead(s, m, f, t)
    \/ \E s \in Slots : UploadNoFile(s)
    \/ \E s \in Slots : UploadSettings(s)
    \/ \E s \in Slots : UploadCreate(s)
    \/ \E s \in Slots : UploadReply(s)
    \/ \E s \in Slots : UploadReplyNotify(s)

SpecNotify == NotifyInit /\ [][NotifyNext]_vars

----------------------------------------------------------------------------
(* SpecView: GET /api/messages among pins, deletes, window changes and     *)
(* the passing of time.  Two messages are 48 and 24 hours old; the         *)
(* sub-admin and Ravi first logged in 30 hours ago.                        *)
ViewMessages ==
    << Message("a1", Some(Hi), "text", Null, Null, Null, 0 - 48),
       Message("u1", Some(Hi), "text", Null, Null, Null, 0 - 24) >>
ViewMembers ==
    [id \in DOMAIN SeedMembers |->
        IF id \in {"s1", "u1"} THEN [SeedMembers[id] EXCEPT !.firstLoginAt = Some(0 - 30)]
        ELSE SeedMembers[id]]
Viewers == {"s1", "u1"}
WindowInputs == {Null, Some(0), Some(24)}

ViewInit ==
    /\ members = ViewMembers
    /\ messages = ViewMessages
    /\ reactions = {}
    /\ chatSettings = [chatDisabled |-> FALSE, disappearAfterHours |-> Null,
                       memberFileSendDisabled |-> FALSE, phoneNumberFilterEnabled |-> FALSE]
    /\ blockedKeywords = {}
    /\ projectUpdates = <<>>
    /\ notifications = <<>>
    /\ NoSockets
    /\ out = <<>>
    /\ reqs = [s \in Slots |-> Idle]
    /\ now = 0

ViewNext ==
    \/ \E s \in Slots, m \in Viewers : GetRead(s, m)
    \/ \E s \in Slots : GetMessages(s)
    \/ \E s \in Slots : GetSettings(s)
    \/ \E s \in Slots, m \in Moderators, id \in DOMAIN messages : PinRead(s, m, id)
    \/ \E s \in Slots : PinUpdate(s)
    \/ \E s \in Slots, m \in Moderators, id \in DOMAIN messages : DeleteCheck(s, m, id)
    \/ \E s \in Slots : DeleteUpdate(s)
    \/ \E m \in Moderators, h \in WindowInputs : setDisappearTime(m, h)
    \/ Tick

SpecView == ViewInit /\ [][ViewNext]_vars

----------------------------------------------------------------------------
(* SpecSubAdmin: the requests a sub-admin makes on member records.  The    *)
(* primary admin starts restricted or not.                                 *)
SubAdmins == {"s1"}
RecordTargets == {"a1", "s1", "u1"}
PatchBodies ==
    {[name |-> n, phone |-> p, isActive |-> a] :
        n \in {Null, Some(<<"X">>)}, p \in {Null, Some("9000000000")}, a \in {Null, Some(FALSE)}}
PrimaryStarts == {Null, Some(1)}

SubAdminInit ==
    /\ \E until \in PrimaryStarts :
          members = [SeedMembers EXCEPT !["a1"].restrictedUntil = until]
    /\ messages = SeedMessages
    /\ reactions = {}
    /\ chatSettings = [chatDisabled |-> FALSE, disappearAfterHours |-> Null,
                       memberFileSendDisabled |-> FALSE, phoneNumberFilterEnabled |-> FALSE]
    /\ blockedKeywords = {}
    /\ projectUpdates = <<>>
    /\ notifications = <<>>
    /\ NoSockets
    /\ out = <<>>
    /\ reqs = [s \in Slots |-> Idle]
    /\ now = 0

SubAdminNext ==
    \/ \E m \in SubAdmins, t \in RecordTargets, b \in PatchBodies : PatchMember(m, t, b)
    \/ \E m \in SubAdmins, t \in RecordTargets : Restrict(m, t, 1)
    \/ \E m \in SubAdmins, t \in RecordTargets : Unrestrict(m, t)
    \/ \E m \in SubAdmins, t \in RecordTargets : DeleteMember(m, t)
    \/ Tick

SpecSubAdmin == SubAdminInit /\ [][SubAdminNext]_vars

----------------------------------------------------------------------------
(* SpecSubDelete: a sub-admin's delete and bulk-delete requests among the  *)
(* primary admin's pin requests.                                           *)
SubDeleteInit ==
    /\ SeedDb
    /\ NoSockets
    /\ out = <<>>
    /\ reqs = [s \in Slots |-> Idle]
    /\ now = 0

SubDeleteNext ==
    \/ \E s \in Slots, m \in SubAdmins, id \in TargetIds : DeleteCheck(s, m, id)
    \/ \E s \in Slots : DeleteUpdate(s)
    \/ \E s \in Slots, m \in SubAdmins, ids \in BulkLists(TargetIds) : BulkStart(s, m, ids)
    \/ \E s \in Slots : BulkCheck(s)
    \/ \E s \in Slots : BulkUpdate(s)
    \/ \E s \in Slots : BulkBroadcast(s)
    \/ \E s \in Slots, m \in Moderators, id \in TargetIds : PinRead(s, m, id)
    \/ \E s \in Slots : PinUpdate(s)

SpecSubDelete == SubDeleteInit /\ [][SubDeleteNext]_vars

----------------------------------------------------------------------------
(* SpecLogin: requests for and verifications of one-time passwords, for a  *)
(* registered and an unregistered phone, as the clock advances.            *)
LoginPhones == {"9876543211", "9000000000"}
Otps == {"1111", "2222"}

LoginInit ==
    /\ SeedDb
    /\ NoSockets
    /\ out = <<>>
    /\ reqs = [s \in Slots |-> Idle]
    /\ now = 0

LoginNext ==
    \/ \E s \in Slots, phone \in LoginPhones, otp \in Otps : RequestOtp(s, phone, otp)
    \/ \E s \in Slots, sent \in BOOLEAN : RequestOtpSent(s, sent)
    \/ \E s \in Slots, phone \in LoginPhones, otp \in Otps : VerifyOtp(s, phone, otp)
    \/ \E s \in Slots : VerifyMember(s)
    \/ \E s \in Slots : VerifyUpdate(s)
    \/ Tick

SpecLogin == LoginInit /\ [][LoginNext]_vars

----------------------------------------------------------------------------
(* SpecDirectory: members connect and register, read the member directory, *)
(* and the primary admin restricts and unrestricts members.                *)
DirectoryReaders == {"s1", "u1"}
DirectoryTargets == {"u2"}
DirectoryRegisters == {[json |-> TRUE, type |-> "register", memberId |-> "u1"]}

DirectoryInit ==
    /\ SeedDb
    /\ NoSockets
    /\ out = <<>>
    /\ reqs = [s \in Slots |-> Idle]
    /\ now = 0

DirectoryNext ==
    \/ \E c \in ConnIds : Connection(c)
    \/ \E c \in ConnIds, raw \in DirectoryRegisters : OnMessage(c, raw)
    \/ \E c \in ConnIds : OnClose(c)
    \/ \E s \in Slots, m \in DirectoryReaders : GetMembersRead(s, m)
    \/ \E s \in Slots : GetMembersAnswer(s)
    \/ \E m \in Moderators, t \in DirectoryTargets : Restrict(m, t, 1)
    \/ \E m \in Moderators, t \in DirectoryTargets : Unrestrict(m, t)

SpecDirectory == DirectoryInit /\ [][DirectoryNext]_vars

----------------------------------------------------------------------------
(* SpecAbsent: the primary admin pins and deletes messages and restricts   *)
(* and unrestricts members, by ids that exist and by ids that do not.      *)
UnknownMember == "zz"
AbsentTargets == {"u1", UnknownMember}

AbsentInit ==
    /\ SeedDb
    /\ NoSockets
    /\ out = <<>>
    /\ reqs = [s \in Slots |-> Idle]
    /\ now = 0

AbsentNext ==
    \/ \E s \in Slots, m \in Moderators, id \in TargetIds : PinRead(s, m, id)
    \/ \E s \in Slots : PinUpdate(s)
    \/ \E s \in Slots, m \in Moderators, id \in TargetIds : DeleteCheck(s, m, id)
    \/ \E s \in Slots : DeleteUpdate(s)
    \/ \E m \in Moderators, t \in AbsentTargets : Restrict(m, t, 1)
    \/ \E m \in Moderators, t \in AbsentTargets : Unrestrict(m, t)
    \/ Tick

SpecAbsent == AbsentInit /\ [][AbsentNext]_vars

----------------------------------------------------------------------------
(* SpecClient: one member's browser with the chat page mounted, its        *)
(* connection dropping and being opened again, among settings events and   *)
(* the passing of time.  SpecClientFair adds the scheduling: timers fire,  *)
(* events are handled, messages arrive, and a server that is tried again   *)
(* and again accepts in the end.                                           *)
ClientInit ==
    /\ SeedDb
    /\ NoSockets
    /\ out = <<>>
    /\ reqs = [s \in Slots |-> Idle]
    /\ now = 0

\* The provider mounts: its effect calls connect().
Mount ==
    /\ browser = NoPage
    /\ browser' = connect(browser)
    /\ NoBroadcast
    /\ UNCHANGED <<dbVars, wsVars, otpStore, reqs, now>>

ClientNext ==
    \/ Mount
    \/ Reconnect
    \/ \E c \in ConnIds : Accept(c)
    \/ OnOpen
    \/ RegisterEffect
    \/ \E c \in ConnIds : Register(c)
    \/ ConnectFails
    \/ Closed
    \/ \E c \in ConnIds : Drop(c)
    \/ \E c \in ConnIds : CloseErrored(c)
    \/ \E m \in Moderators : toggleChat(m)
    \/ Tick

SpecClient == ClientInit /\ [][ClientNext]_vars

SpecClientFair ==
    /\ SpecClient
    /\ WF_vars(Mount) /\ WF_vars(Reconnect) /\ WF_vars(OnOpen) /\ WF_vars(RegisterEffect)
    /\ WF_vars(Closed)
    /\ WF_vars(\E c \in ConnIds : Register(c))
    /\ WF_vars(\E c \in ConnIds : CloseErrored(c))
    /\ SF_vars(\E c \in ConnIds : Accept(c))

----------------------------------------------------------------------------
(* Claims.                                                                 *)

\* C1: for every (message, member) pair the reactions table never holds more
\* than one row, under any interleaving of that member's toggles on the message.
C1_AtMostOneReactionPerPair ==
    \A r1, r2 \in reactions :
        (r1.messageId = r2.messageId /\ r1.memberId = r2.memberId) => r1 = r2

\* C2: no message is both soft-deleted and pinned, in any state reached by
\* pin, delete and bulk-delete requests in any interleaving.
C2_DeletedNeverPinned ==
    \A id \in DOMAIN messages : ~(messages[id].isDeleted /\ messages[id].isPinned)

\* A step in which slot s takes up a send or an upload of a known sender.
StartsRequest(s, op) ==
    /\ Free(s) /\ reqs'[s] # reqs[s]
    /\ reqs'[s].op = op /\ ~(reqs'[s].pc = "done" /\ reqs'[s].status = 400)
\* A step of the request in slot s from the given position.
StepsFrom(s, op, pc) == reqs[s].op = op /\ reqs[s].pc = pc /\ reqs'[s] # reqs[s]
RejectedWith(r, message) == r.pc = "done" /\ r.status = 403 /\ r.message = message
PolicyRejected(r) == r.op \in {"send", "upload"} /\ r.pc = "done" /\ r.status = 403

\* C3: an upload is rejected, and creates no message, when its sender is
\* restricted, when the chat is disabled and the sender is no admin or
\* sub-admin, or when file sending is disabled and the sender is no admin or
\* sub-admin.
C3_UploadRunsSendChecks ==
    [][\A s \in Slots :
        /\ (StartsRequest(s, "upload") /\ Restricted(members[reqs'[s].senderId], now))
             => (RejectedWith(reqs'[s], MsgRestricted) /\ messages' = messages)
        /\ (StepsFrom(s, "upload", "settings") /\ ~isAdminRole(reqs[s].role)
              /\ (chatSettings.chatDisabled \/ chatSettings.memberFileSendDisabled))
             => (PolicyRejected(reqs'[s]) /\ messages' = messages)
        /\ (StepsFrom(s, "upload", "settings") /\ isAdminRole(reqs[s].role))
             => reqs'[s].pc = "create"]_vars

\* C4: a text send whose sender is restricted when the handler reads the
\* member row is answered with the restricted reason and persists nothing,
\* whatever the sender's role, the content and the chat settings.
C4_RestrictedSenderRejected ==
    [][\A s \in Slots :
        (/\ StartsRequest(s, "send")
         /\ members[reqs'[s].senderId].restrictedUntil # Null
         /\ Val(members[reqs'[s].senderId].restrictedUntil) > now)
          => (RejectedWith(reqs'[s], MsgRestricted) /\ messages' = messages)]_vars

\* C4 witness: a restricted sub-admin's send of clean-for-admins content was
\* answered with the restricted reason while the chat was open.
C4_Witness ==
    \E s \in Slots :
        /\ reqs[s].op = "send" /\ RejectedWith(reqs[s], MsgRestricted)
        /\ reqs[s].role = "sub-admin" /\ reqs[s].content = Some(Shout)
        /\ ~chatSettings.chatDisabled

\* C5: no text send of an admin or sub-admin is answered with the
\* blocked-keyword reason or the phone-number reason.
C5_AdminsBypassContentChecks ==
    \A s \in Slots :
        (PolicyRejected(reqs[s]) /\ reqs[s].op = "send" /\ isAdminRole(reqs[s].role))
          => reqs[s].message \notin {MsgKeyword, MsgPhone}

\* C5 witness: a sub-admin's send was accepted although its content holds a
\* stored blocked keyword and a phone number and the phone filter is on.
C5_Witness ==
    \E s \in Slots :
        /\ reqs[s].op = "send" /\ reqs[s].pc = "done" /\ reqs[s].status = 200
        /\ reqs[s].role = "sub-admin" /\ reqs[s].content # Null
        /\ KeywordBlocked(Val(reqs[s].content), {k.keyword : k \in blockedKeywords})
        /\ containsPhoneNumber(Val(reqs[s].content))
        /\ chatSettings.phoneNumberFilterEnabled
        /\ messages[Val(reqs[s].msg)].content = reqs[s].content

\* The reason of the first failing check in the order restricted, chat
\* disabled, blocked keyword, phone number; "accepted" when none fails.
FirstFailingCheck(restricted, chatDisabled, role, content, keywords, phoneFilter) ==
    IF restricted THEN MsgRestricted
    ELSE IF chatDisabled /\ role \notin {"admin", "sub-admin"} THEN MsgChatDisabled
    ELSE IF /\ role \notin {"admin", "sub-admin"} /\ content # Null
            /\ \E k \in keywords : includes(toLowerCase(Val(content)), k.keyword)
      THEN MsgKeyword
    ELSE IF /\ role \notin {"admin", "sub-admin"} /\ content # Null /\ phoneFilter
            /\ containsPhoneNumber(Val(content))
      THEN MsgPhone
    ELSE "accepted"

\* C6: a text send is answered with the reason of the first failing check in
\* the order restricted, chat disabled, blocked keyword, phone number, each
\* check taken on the values the handler reads for it, and goes on to create
\* the message when none fails.
C6_FirstFailingCheckWins ==
    [][\A s \in Slots :
        /\ StartsRequest(s, "send") =>
             IF Restricted(members[reqs'[s].senderId], now)
               THEN RejectedWith(reqs'[s], MsgRestricted)
               ELSE reqs'[s].pc = "settings"
        /\ StepsFrom(s, "send", "settings") =>
             LET r == reqs[s]
                 v == FirstFailingCheck(FALSE, chatSettings.chatDisabled, r.role, r.content,
                                        {}, FALSE)
             IN IF v = MsgChatDisabled THEN RejectedWith(reqs'[s], MsgChatDisabled)
                ELSE /\ reqs'[s].pc \in {"keywords", "create"}
                     /\ reqs'[s].pc = "create" => (isAdminRole(r.role) \/ ~Truthy(r.content))
        /\ StepsFrom(s, "send", "keywords") =>
             LET r == reqs[s]
                 v == FirstFailingCheck(FALSE, FALSE, r.role, r.content, blockedKeywords,
                                        r.phoneNumberFilterEnabled)
             IN IF v = "accepted" THEN reqs'[s].pc = "create" ELSE RejectedWith(reqs'[s], v)]_vars

\* C6 witness: a member's send was answered with the chat-disabled reason
\* although its content holds a stored blocked keyword and a phone number.
C6_Witness ==
    \E s \in Slots :
        /\ reqs[s].op = "send" /\ RejectedWith(reqs[s], MsgChatDisabled)
        /\ reqs[s].role = "member" /\ reqs[s].content = Some(SpamDigits)
        /\ chatSettings.chatDisabled /\ chatSettings.phoneNumberFilterEnabled
        /\ KeywordBlocked(SpamDigits, {k.keyword : k \in blockedKeywords})

\* C7: a step that answers a text send or an upload with a policy rejection
\* leaves the messages and notifications tables as they were and broadcasts
\* neither a new_message nor a notification event.
C7_RejectionChangesNothing ==
    [][\A s \in Slots :
        (reqs'[s] # reqs[s] /\ PolicyRejected(reqs'[s])) =>
            /\ messages' = messages
            /\ notifications' = notifications
            /\ \A i \in 1..Len(out') : out'[i].data.type \notin {"new_message", "notification"}
            /\ reqs'[s].msg = Null]_vars

\* C7 witness: a member's send was rejected for a blocked keyword and the
\* messages table still holds the seeded rows only.
C7_Witness ==
    \E s \in Slots :
        /\ reqs[s].op = "send" /\ RejectedWith(reqs[s], MsgKeyword)
        /\ messages = SeedMessages /\ notifications = <<>> /\ out = <<>>

\* C8: a member's projectsCompleted and totalProjectValue never decrease,
\* under any interleaving of that member's update-projects requests.
C8_ProjectTotalsNeverDecrease ==
    [][\A m \in DOMAIN members :
          m \in DOMAIN members' =>
             /\ members'[m].projectsCompleted >= members[m].projectsCompleted
             /\ members'[m].totalProjectValue >= members[m].totalProjectValue]_vars

\* C9: the online count is the number of distinct member ids bound to open
\* connections, a closed or errored connection is never in the presence map,
\* and an online_count event carries that count.
BoundOpenMembers ==
    {m \in RegisterIds : \E c \in ConnIds :
        clients[c] = "open" /\ c \in DOMAIN onlineMembers /\ onlineMembers[c] = m}
C9_OnlineCountIsDistinctMembers ==
    /\ DOMAIN onlineMembers \subseteq OpenClients(clients)
    /\ getOnlineCount(onlineMembers) = Cardinality(BoundOpenMembers)
    /\ \A i \in DOMAIN out :
          out[i].data.type = "online_count" => out[i].data.count = Cardinality(BoundOpenMembers)
\* Two open connections registered the same member id and a third was closed.
C9_Witness ==
    /\ \E c1, c2 \in DOMAIN onlineMembers : c1 # c2 /\ onlineMembers[c1] = onlineMembers[c2]
    /\ \E c \in ConnIds : clients[c] = "closed"
    /\ getOnlineCount(onlineMembers) = 1

\* C10: once a connection is bound to a member id, the binding is that member
\* id for as long as the connection stays open.
C10_BindingFixedWhileOpen ==
    [][\A c \in ConnIds :
          (c \in DOMAIN onlineMembers /\ clients'[c] = "open")
             => (c \in DOMAIN onlineMembers' /\ onlineMembers'[c] = onlineMembers[c])]_vars


\* C11: every step that changes the presence map broadcasts, to all open
\* connections, an online_count event carrying the new distinct count.
C11_MutationBroadcastsCount ==
    [][onlineMembers' # onlineMembers =>
         \E i \in DOMAIN out' :
            /\ out'[i].data.type = "online_count"
            /\ out'[i].data.count = getOnlineCount(onlineMembers')
            /\ out'[i].to = OpenClients(clients')]_vars

\* The notifications a recipient holds for a triggering message.
NotificationsFor(messageId, recipientId) ==
    {i \in DOMAIN notifications :
        notifications[i].messageId = messageId /\ notifications[i].recipientId = recipientId}
\* A send or upload that was answered with the message it created.
Delivered(s) ==
    reqs[s].op \in {"send", "upload"} /\ reqs[s].pc = "done" /\ reqs[s].status = 200
\* The sender of the message that message m replies to, when there is one.
RepliedSender(m) ==
    IF messages[m].replyToId # Null /\ Val(messages[m].replyToId) \in DOMAIN messages
      THEN Some(messages[Val(messages[m].replyToId)].senderId)
      ELSE Null

\* C12: a recipient never holds two notifications for one triggering message,
\* and when a delivered message replies to another member's message, that
\* member holds exactly one notification for it, of type "reply", whether or
\* not the message mentions the member too.
C12_OneNotificationReplyFirst ==
    /\ \A m \in DOMAIN messages, r \in DOMAIN members :
          Cardinality(NotificationsFor(m, r)) <= 1
    /\ \A s \in Slots :
          (Delivered(s) /\ RepliedSender(Val(reqs[s].msg)) # Null
             /\ Val(RepliedSender(Val(reqs[s].msg))) # reqs[s].senderId)
          => \E i \in DOMAIN notifications :
                /\ NotificationsFor(Val(reqs[s].msg), Val(RepliedSender(Val(reqs[s].msg)))) = {i}
                /\ notifications[i].type = "reply"

\* C12 witness: the sub-admin replied to Ravi's message, mentioning Ravi by
\* name, and Ravi holds one notification for it.
C12_Witness ==
    \E s \in Slots :
        /\ Delivered(s) /\ reqs[s].senderId = "s1"
        /\ messages[Val(reqs[s].msg)].replyToId = Some(2)
        /\ messages[Val(reqs[s].msg)].mentions # Null
        /\ findMentioned(members, Val(messages[Val(reqs[s].msg)].mentions)[1]) = Some("u1")
        /\ Cardinality(NotificationsFor(Val(reqs[s].msg), "u1")) = 1

\* C13: no notification's recipient is the sender of its triggering message.
C13_NoSelfNotification ==
    \A i \in DOMAIN notifications :
        /\ notifications[i].recipientId # messages[notifications[i].messageId].senderId
        /\ notifications[i].senderId = messages[notifications[i].messageId].senderId

\* C13 witness: Ravi's delivered message mentions Ravi and the sub-admin; the
\* sub-admin holds a notification for it and Ravi holds none.
C13_Witness ==
    \E s \in Slots :
        /\ Delivered(s) /\ reqs[s].op = "send" /\ reqs[s].senderId = "u1"
        /\ messages[Val(reqs[s].msg)].mentions # Null
        /\ findMentioned(members, Val(messages[Val(reqs[s].msg)].mentions)[1]) = Some("u1")
        /\ NotificationsFor(Val(reqs[s].msg), "s1") # {}
        /\ NotificationsFor(Val(reqs[s].msg), "u1") = {}

\* The text holds "@" followed at once by the member's full display name, in
\* any letter case, and the name ends there (no word character follows it).
NamesMember(text, id) ==
    \E i \in 1..Len(text) :
        /\ text[i] = "@"
        /\ i + Len(members[id].name) <= Len(text)
        /\ toLowerCase(SubSeq(text, i + 1, i + Len(members[id].name)))
              = toLowerCase(members[id].name)
        /\ ~WordAt(text, i + Len(members[id].name) + 1)

\* C14: when a delivered text message names a member other than its sender
\* after an "@", whatever follows the name, that member holds a notification
\* for the message: the reply notification if the member receives it, a
\* "mention" notification otherwise.
C14_NamedMemberNotified ==
    \A s \in Slots, id \in DOMAIN members :
        (/\ Delivered(s) /\ reqs[s].op = "send" /\ reqs[s].content # Null
         /\ id # reqs[s].senderId
         /\ NamesMember(Val(reqs[s].content), id))
        => \E i \in NotificationsFor(Val(reqs[s].msg), id) :
              notifications[i].type =
                 IF RepliedSender(Val(reqs[s].msg)) = Some(id) THEN "reply" ELSE "mention"

\* An answered GET /api/messages, and what its body holds.
Listed(s) == reqs[s].op = "getMessages" /\ reqs[s].pc = "done"
Returns(body, id) == \E i \in DOMAIN body : body[i].id = id
\* The step in which the GET in slot s filters its rows and answers.
Answers(s) == StepsFrom(s, "getMessages", "settings")
Kept(s, row) == \E i \in DOMAIN reqs'[s].body : reqs'[s].body[i] = row

\* C15: no row in the body of an answered GET /api/messages has isDeleted
\* true, whoever the viewer is.
C15_DeletedNeverReturned ==
    \A s \in Slots : Listed(s) => \A i \in DOMAIN reqs[s].body : ~reqs[s].body[i].isDeleted

\* C15 witness: the oldest message is deleted and pinned, and an answered GET
\* returned the other message without it.
C15_Witness ==
    \E s \in Slots :
        /\ Listed(s) /\ messages[1].isDeleted /\ messages[1].isPinned
        /\ Returns(reqs[s].body, 2) /\ ~Returns(reqs[s].body, 1)

\* C16: with a disappearing window set, the answer of GET /api/messages to any
\* viewer leaves out every non-pinned row created before now minus the window
\* and holds every pinned row that is not deleted.
C16_WindowHidesOldKeepsPinned ==
    [][\A s \in Slots :
        (Answers(s) /\ chatSettings.disappearAfterHours \notin {Null, Some(0)}) =>
            \A i \in DOMAIN reqs[s].msgs :
                LET row == reqs[s].msgs[i]
                IN /\ row.isPinned => Kept(s, row)
                   /\ (~row.isPinned /\ row.createdAt < now - Val(chatSettings.disappearAfterHours))
                        => ~Kept(s, row)]_vars

\* C16 witness: with a 24-hour window the sub-admin was answered with the
\* pinned 49-hour-old message and without the non-pinned 25-hour-old one.
C16_Witness ==
    \E s \in Slots :
        /\ Listed(s) /\ Val(reqs[s].member).role = "sub-admin"
        /\ chatSettings.disappearAfterHours = Some(24) /\ now = 1
        /\ messages[1].isPinned /\ ~messages[2].isPinned /\ ~messages[2].isDeleted
        /\ Returns(reqs[s].body, 1) /\ ~Returns(reqs[s].body, 2)

\* C17: the answer to a viewer who is no admin or sub-admin and first logged
\* in at T leaves out every non-pinned row created before T and holds every
\* pinned row; the answer to an admin or sub-admin holds every row the window
\* does not hide, those created before the viewer's first login included.
C17_FirstLoginHidesHistory ==
    [][\A s \in Slots :
        (Answers(s) /\ reqs[s].member # Null /\ Val(reqs[s].member).firstLoginAt # Null) =>
            \A i \in DOMAIN reqs[s].msgs :
                LET row == reqs[s].msgs[i]
                    T == Val(Val(reqs[s].member).firstLoginAt)
                    hidden == /\ chatSettings.disappearAfterHours \notin {Null, Some(0)}
                              /\ row.createdAt < now - Val(chatSettings.disappearAfterHours)
                IN IF Val(reqs[s].member).role \in {"admin", "sub-admin"}
                     THEN (~row.isPinned /\ row.createdAt < T /\ ~hidden) => Kept(s, row)
                     ELSE /\ (~row.isPinned /\ row.createdAt < T) => ~Kept(s, row)
                          /\ row.isPinned => Kept(s, row)]_vars

\* C17 witness: Ravi and the sub-admin first logged in at the same time; Ravi
\* was answered without the older, non-pinned message and the sub-admin with it.
C17_Witness ==
    \E s, t \in Slots :
        /\ Listed(s) /\ Val(reqs[s].member).role = "member"
        /\ Listed(t) /\ Val(reqs[t].member).role = "sub-admin"
        /\ Val(reqs[s].member).firstLoginAt = Val(reqs[t].member).firstLoginAt
        /\ ~messages[1].isPinned /\ ~messages[1].isDeleted
        /\ ~Returns(reqs[s].body, 1) /\ Returns(reqs[s].body, 2)
        /\ Returns(reqs[t].body, 1)

\* C18: every stored message of type image or file has no content, and every
\* stored message of type text has no fileUrl.
C18_TypeInvariant ==
    \A m \in DOMAIN messages :
        /\ messages[m].type \in {"image", "file"} => messages[m].content = Null
        /\ messages[m].type = "text" => messages[m].fileUrl = Null

\* The rows of the pair a toggle is about, after the step.
RowsAfter(r) ==
    {x \in reactions' : x.messageId = r.messageId /\ x.memberId = r.memberId}

\* C19: when the toggles of a member on a message run one after the other, a
\* toggle finds at most one row of the pair and, when it ends, has added the
\* emoji if it found none, removed the row if it found the same emoji, and
\* left exactly one row with the new emoji if it found a different one.
C19_ToggleAddsRemovesReplaces ==
    [][\A s \in Slots :
        /\ (Free(s) /\ reqs'[s].op = "toggleReaction" /\ reqs'[s].pc # "done") =>
              ReactionRows(reqs'[s].messageId, reqs'[s].memberId)
                 = IF reqs'[s].existing = Null THEN {} ELSE {Val(reqs'[s].existing)}
        /\ (reqs[s].op = "toggleReaction" /\ reqs[s].pc # "done" /\ reqs'[s].pc = "done") =>
              IF reqs[s].existing # Null /\ Val(reqs[s].existing).emoji = reqs[s].emoji
                THEN RowsAfter(reqs[s]) = {}
                ELSE /\ Cardinality(RowsAfter(reqs[s])) = 1
                     /\ \A x \in RowsAfter(reqs[s]) : x.emoji = reqs[s].emoji]_vars

\* C19 witness: Ravi toggled "like" and then "heart"; the one row left is the
\* second insert's, with "heart".
C19_Witness ==
    /\ \E s \in Slots : reqs[s].op = "toggleReaction" /\ reqs[s].pc = "done"
    /\ reactions = {[id |-> 2, messageId |-> 1, memberId |-> "u1", emoji |-> "heart"]}

\* The member holding the primary admin's phone.
PrimaryAdmins == {id \in DOMAIN members : members[id].phone = PRIMARY_ADMIN_PHONE}

\* C20: no request of a sub-admin changes the name, the phone, the active flag
\* or the restriction timestamp of the primary admin's record, or removes it.
C20_SubAdminLeavesPrimaryAdmin ==
    [][\A id \in PrimaryAdmins :
        /\ id \in DOMAIN members'
        /\ members'[id].name = members[id].name
        /\ members'[id].phone = members[id].phone
        /\ members'[id].isActive = members[id].isActive
        /\ members'[id].restrictedUntil = members[id].restrictedUntil]_vars

\* The messages whose sender holds the primary admin's phone.
PrimaryAdminMessages ==
    {m \in DOMAIN messages : messages[m].senderId \in PrimaryAdmins}

C22_FirstLoginSetOnce ==
    [][\A id \in DOMAIN members :
          members[id].firstLoginAt # Null
             => (id \in DOMAIN members' /\ members'[id].firstLoginAt = members[id].firstLoginAt)]_vars

\* The members who are not admins.
NonAdmins == {m \in DOMAIN members : ~isAdminRole(members[m].role)}

\* C23: a member who is not an admin never receives a private field (phone,
\* restrictedUntil, firstLoginAt) of another member: the answer to that
\* member's GET /api/members carries none, and no event delivered to a
\* connection registered to that member carries one (a row is the member's
\* own when it equals the stored one, phones being unique).
C23_NonAdminSeesPublicFieldsOnly ==
    /\ \A s \in Slots :
          (reqs[s].op = "members" /\ reqs[s].pc = "done" /\ reqs[s].memberId \in NonAdmins)
             => \A id \in DOMAIN reqs[s].body \ {reqs[s].memberId} :
                   DOMAIN reqs[s].body[id] \cap PrivateFields = {}
    /\ \A i \in DOMAIN out : \A c \in out[i].to :
          (c \in DOMAIN onlineMembers /\ onlineMembers[c] \in NonAdmins)
             => \/ "member" \notin DOMAIN out[i].data
                \/ out[i].data.member = Null
                \/ Val(out[i].data.member) = members[onlineMembers[c]]
                \/ DOMAIN Val(out[i].data.member) \cap PrivateFields = {}

\* The step leaves the tables as they are and broadcasts nothing.
NothingDone == UNCHANGED dbVars /\ out' = <<>>
NotFoundAnswer(r) == r.pc = "done" /\ r.status = 404

\* C24: a pin or delete of a message id that is not stored is answered 404,
\* and that request, like a restrict or unrestrict of a member id that is
\* not stored, changes no table and broadcasts no event.
C24_AbsentTargetNotFound ==
    [][/\ \A s \in Slots, m \in Moderators :
             PinRead(s, m, UnknownId) => (NotFoundAnswer(reqs'[s]) /\ NothingDone)
       /\ \A s \in Slots :
             (StepsFrom(s, "delete", "update") /\ reqs[s].id \notin DOMAIN messages)
                => (NotFoundAnswer(reqs'[s]) /\ NothingDone)
       /\ \A m \in Moderators :
             (Restrict(m, UnknownMember, 1) \/ Unrestrict(m, UnknownMember)) => NothingDone]_vars

\* The members holding the primary admin's phone.
PrimaryHolders(ms) == {id \in DOMAIN ms : ms[id].phone = PRIMARY_ADMIN_PHONE}

\* C25: no step changes the phone of a stored member, and the member holding
\* the primary admin's phone stays the same.
C25_PhoneImmutable ==
    [][/\ \A id \in DOMAIN members \cap DOMAIN members' : members'[id].phone = members[id].phone
       /\ PrimaryHolders(members') = PrimaryHolders(members)]_vars

\* The events of the given type handed to broadcast() by the step taken.
EventsOut(type) == {i \in DOMAIN out' : out'[i].data.type = type}

\* C26: a step that stores a message broadcasts its new_message event in the
\* same step, when no notification for it exists yet; a step that creates a
\* notification, or broadcasts one, does so for a message stored by an
\* earlier step; and after every step each stored notification and each
\* broadcast event refers to a stored message.
C26_PersistBroadcastNotify ==
    [][/\ \A k \in DOMAIN messages' \ DOMAIN messages :
             /\ \E i \in EventsOut("new_message") :
                   out'[i].data.messageId = k /\ out'[i].data.message = messages'[k]
             /\ \A i \in DOMAIN notifications' : notifications'[i].messageId # k
             /\ EventsOut("notification") = {}
       /\ \A i \in DOMAIN notifications' \ DOMAIN notifications :
             /\ notifications'[i].messageId \in DOMAIN messages
             /\ \E j \in EventsOut("notification") : out'[j].data.notification = notifications'[i]
       /\ \A i \in DOMAIN notifications' : notifications'[i].messageId \in DOMAIN messages'
       /\ \A i \in EventsOut("new_message") : out'[i].data.messageId \in DOMAIN messages'
       /\ \A i \in EventsOut("notification") :
             out'[i].data.notification.messageId \in DOMAIN messages]_vars

\* C26, witness: a reply has been stored and its author's notification, the
\* latest event broadcast, refers to it.
C26_Witness ==
    \E i \in DOMAIN notifications, j \in DOMAIN out :
        /\ out[j].data.type = "notification" /\ out[j].data.notification = notifications[i]
        /\ notifications[i].messageId \in DOMAIN messages
        /\ notifications[i].messageId > Len(SeedMessages)
        /\ messages[notifications[i].messageId].replyToId # Null

\* C27: every event broadcast by a step goes to exactly the connections that
\* are open when it is sent, and a connection that opens receives neither an
\* event of that step nor the events sent before it opened.
C27_BroadcastAtomic ==
    [][/\ \A i \in DOMAIN out' : out'[i].to = {c \in ConnIds : clients'[c] = "open"}
       /\ \A c \in ConnIds :
             (clients[c] # "open" /\ clients'[c] = "open")
                => (out' = <<>> /\ \A i \in DOMAIN out : c \notin out[i].to)]_vars

\* C27, witness: a member_updated event went to two open connections while
\* a third had already closed.
C27_Witness ==
    \E i \in DOMAIN out :
        /\ out[i].data.type = "member_updated"
        /\ Cardinality(out[i].to) = 2
        /\ \E c \in ConnIds : clients[c] = "closed"

\* C28: the step that completes a pin request on a stored message that is
\* not deleted flips the message's isPinned, so that the flag after n
\* completed pins differs from its first value exactly when n is odd.
C28_PinFlipsOnce ==
    [][\A s \in Slots :
          (StepsFrom(s, "pin", "update") /\ ~messages[reqs[s].id].isDeleted)
             => messages'[reqs[s].id].isPinned = ~messages[reqs[s].id].isPinned]_vars

\* C29: the step that stores a message finds its sender unrestricted and,
\* unless the sender is an admin, the chat enabled.
C29_PolicyAtPersistence ==
    [][\A k \in DOMAIN messages' \ DOMAIN messages :
          LET sender == members[messages'[k].senderId]
          IN  /\ ~(sender.restrictedUntil # Null /\ Val(sender.restrictedUntil) > now)
              /\ ~(chatSettings.chatDisabled /\ ~isAdminRole(sender.role))]_vars

\* The member is bound in the presence map on the browser's current connection.
Bound ==
    /\ browser.ws # Null /\ browser.readyState = "open"
    /\ Val(browser.ws) \in DOMAIN onlineMembers
    /\ onlineMembers[Val(browser.ws)] = ClientMember

\* C30: whenever the browser's socket has closed with the page mounted, the
\* browser connects again and registers, and the member is bound in the
\* presence map on the new connection.
C30_ReconnectsAndRegisters ==
    (browser.ws # Null /\ browser.readyState = "closed") ~> Bound

\* C30, witness: the member is bound on a second connection after the first
\* one closed.
C30_Witness ==
    /\ Bound
    /\ \E c \in ConnIds : clients[c] = "closed" /\ Val(browser.ws) # c
====
